---- MODULE Spec2Model ----
(***************************************************************************)
(* A model of dash-core's AdaptivePoller and ExponentialBackoff.            *)
(*                                                                         *)
(* AdaptivePoller, in its three revisions:                                 *)
(*   "positional" : positional constructor, timer based, clamp on ">"      *)
(*   "options"    : options object, timer based, clamp on ">=", the next   *)
(*                  poll scheduled in a finally block                      *)
(*   "awaitable"  : options object, runPoll is one async loop whose        *)
(*                  promise is kept in this.task and awaited by stop()     *)
(* One poller instance is modelled; its revision and its options are       *)
(* chosen in Init.  Every action is one synchronous run of JavaScript:     *)
(* a public method called by the user, or a continuation the event loop    *)
(* resumes (an operation's promise settling, a timer firing, the promise   *)
(* awaited by stop() settling).                                            *)
(*                                                                         *)
(* Time: Date.now() is read only in "now - lastErrorTime >= resetPeriod"   *)
(* and in the truthiness of lastErrorTime, so the model keeps whether      *)
(* lastErrorTime is set and the time elapsed since it, saturated at        *)
(* resetPeriod.  Durations are in milliseconds.                            *)
(*                                                                         *)
(* factor is a JavaScript number; the model keeps it as the fraction       *)
(* factorNum / factorDen and lets a failed cycle complete only where       *)
(* currentDelay * factor is a whole number of milliseconds or is clamped.  *)
(* Callbacks throw only under CallbackSpec, logger calls never, and an     *)
(* operation rejects with a value JSON.stringify accepts (no cycle, no     *)
(* BigInt).                                                                *)
(*                                                                         *)
(* ExponentialBackoff: one instance, its options chosen in Init, and the   *)
(* execute() calls made on it.  Each call owns its currentDelay and        *)
(* lastError; its actions are the call itself, the attempt's promise       *)
(* settling, and the Wait between attempts resolving.  The k-th attempt of *)
(* a call resolves with value k or rejects with error k.                   *)
(***************************************************************************)
EXTENDS Integers, Sequences, FiniteSets, TLC

\* Most poll loops (an operation in flight or a timer pending) alive at once.
MaxLoops == 2
\* The count of failed cycles of a session saturates here.
MaxCount == 4
\* The execute() calls made on the ExponentialBackoff instance.
MaxCalls == 2
\* The counts of attempts and sleeps of one execute() call saturate here.
MaxAttempts == 5
\* The TimeSpan and Rate instances the caller constructs and keeps; what a
\* factory or a method returns is a temporary, which the next call may still be
\* made on.
MaxObjects == 2
\* The calls chained on a returned TimeSpan that was not kept.
MaxChain == 1
\* The items of an iterable handed to Mathf.
MaxItems == 3
\* The calls of addTransport on one ServiceLogger.
MaxTransports == 3
\* The comma-separated entries of a globalFilter string.
MaxEntries == 2
\* The model's Number.MAX_SAFE_INTEGER: the whole numbers up to it are a number
\* each, above it only the even ones are, above twice it every fourth, and so on.
MaxSafe == 100000000

Max(a, b) == IF a >= b THEN a ELSE b
Min(a, b) == IF a <= b THEN a ELSE b

Revisions == {"positional", "options", "awaitable"}
TimerRevisions == {"positional", "options"}

\* What the caller passes to start(): an operation and two optional callbacks.
\* An operation is known by how its promise settles.
NoOp == "undefined"
Operations == {"opA", "opB"}
NoCb == "undefined"
ErrorCallbacks == {NoCb, "onError"}
FailCallbacks == {NoCb, "onFail"}
\* The argument lists start() is called with.
StartArgs == {<<"opA", "onError", "onFail">>, <<"opB", NoCb, NoCb>>}
\* An operation's promise resolves or rejects.
Outcomes == {"ok", "fail"}

\* A JavaScript value as the catch block sees it: its type, its text (an Error's
\* message, a string's characters, a number's digits) and, for an Error, whether
\* it is the object the operation threw or one the catch block created.
Value(t, v, r) == [type |-> t, val |-> v, ref |-> r]
NoValue == Value("none", "", "none")
\* What an operation rejects with: an Error instance, a string, a number, null,
\* undefined (a bare reject()).
ThrownValues ==
    { Value("Error", "boom", "thrown"),
      Value("string", "boom", "thrown"),
      Value("number", "42", "thrown"),
      Value("null", "", "thrown"),
      Value("undefined", "", "thrown") }
\* The Error instance the operation rejects with where no more is said.
ThrownError == Value("Error", "boom", "thrown")
ThrownBy(outcome, errors) == IF outcome = "fail" THEN errors ELSE {NoValue}

\* How long the clock may move in one step while nothing else happens.
Durations == {1000}

Opt(i, m, n, d, r, l) ==
    [initialDelay |-> i, maxDelay |-> m, factorNum |-> n, factorDen |-> d,
     resetPeriod |-> r, linearStep |-> l]

\* initialDelay=1000ms, maxDelay=5000ms, factor=2: the backoff scenario
BackoffScenario == Opt(1000, 5000, 2, 1, 2000, 1000)
\* initialDelay=1000ms, linearStep=200ms, resetPeriod=0ms: the decay scenario
DecayScenario == Opt(1000, 2000, 2, 1, 0, 200)

\* 1000 * 2 * 2 = maxDelay exactly
ExactOptions == Opt(1000, 4000, 2, 1, 2000, 1000)
\* factor 1.5, the default
DefaultFactorOptions == Opt(1000, 2000, 3, 2, 1000, 1000)

\* The pollerOptions the model is run with.
Configs ==
    { BackoffScenario,
      DecayScenario,
      ExactOptions,
      DefaultFactorOptions,
      Opt(2000, 2000, 1, 1, 1000, 1000),   \* initialDelay = maxDelay, factor 1
      Opt(1000, 3000, 1, 2, 1000, 1000),   \* factor 0.5
      Opt(2000, 1000, 2, 1, 0, 500),       \* initialDelay > maxDelay
      Opt(1000, 4000, 2, 1, 0, 0) }        \* linearStep 0

\* The positional revision differs from the options-object one in its clamp test
\* alone; it is run with the options that tell the two apart and two more.
ConfigsOf(r) ==
    IF r = "positional"
    THEN {ExactOptions, DecayScenario, DefaultFactorOptions}
    ELSE Configs

VARIABLES
    rev,            \* the revision of AdaptivePoller this instance is of
    options,        \* this.options (the constructor arguments)
    polling,        \* this.polling                      (timer revisions)
    operation,      \* this.operation
    onError,        \* this.onError
    onFail,         \* this.onFail
    currentDelay,   \* this.currentDelay                 (timer revisions)
    lastErrorSet,   \* this.lastErrorTime is truthy      (timer revisions)
    elapsed,        \* Date.now() - this.lastErrorTime, saturated at resetPeriod
    currentTimeout, \* this.currentTimeout: the slot of the timer last created, 0 if none
    task,           \* this.task: the slot of the runPoll() promise, 0 if undefined
    loops,          \* the runPoll invocations: what each is suspended on
    stopWait,       \* the runPoll promises that a pending stop() awaits
    out,            \* what the last step did that its caller can observe
    hist,           \* since the last start() that took effect: the failed cycles, whether
                    \* a cycle succeeded, whether a stop() promise settled
    backoffOptions, \* ExponentialBackoff: this.options
    calls,          \* ExponentialBackoff: the execute() calls, each with its locals
    throwException, \* RestRequest: this.throwException
    requests,       \* RestRequest: the get() / post() calls, one on each execute() call
    heap,           \* the TimeSpan and Rate instances created so far
    ret,            \* the last call made on TimeSpan, Rate or Mathf and how it ended
    logger          \* the ServiceLogger instance

vars == <<rev, options, polling, operation, onError, onFail, currentDelay,
          lastErrorSet, elapsed, currentTimeout, task, loops, stopWait, out, hist,
          backoffOptions, calls, throwException, requests, heap, ret, logger>>

backoffVars == <<backoffOptions, calls>>
restVars == <<throwException, requests>>
libVars == <<heap, ret, logger>>
pollerVars == <<rev, options, polling, operation, onError, onFail, currentDelay,
                lastErrorSet, elapsed, currentTimeout, task, loops, stopWait, out, hist>>

Slots == 1..MaxLoops

\* A runPoll invocation.  pc: "free" no invocation; "op" awaiting the promise of
\* the this.operation() it called;
\* "timer" a setTimeout / Wait with `left` ms to go; "done" the async
\* function has returned (its promise is settled).  cur, errSet, age and ret are the
\* awaitable revision's locals: currentDelay, lastErrorTime (set, and time since),
\* and whether the loop is leaving through `return`.
Free ==
    [pc |-> "free", left |-> 0,
     cur |-> 0, errSet |-> FALSE, age |-> 0, ret |-> FALSE]

Live(l) == l.pc \in {"op", "timer"}
LiveSlots == {i \in Slots : Live(loops[i])}
InFlight == {i \in Slots : loops[i].pc = "op"}

Quiet ==
    [ev |-> "init", noop |-> FALSE, sel |-> "none", cb |-> <<>>, log |-> <<>>,
     thrown |-> NoValue, err |-> NoValue]
Ev(e) == [Quiet EXCEPT !.ev = e]

NoHist == [fails |-> 0, ok |-> FALSE, stopped |-> FALSE]

TypeOK ==
    /\ rev \in Revisions
    /\ options \in Configs
    /\ polling \in BOOLEAN
    /\ operation \in Operations \cup {NoOp}
    /\ onError \in ErrorCallbacks
    /\ onFail \in FailCallbacks
    /\ currentDelay \in Nat
    /\ lastErrorSet \in BOOLEAN
    /\ elapsed \in 0..options.resetPeriod
    /\ currentTimeout \in 0..MaxLoops
    /\ task \in 0..MaxLoops
    /\ \A i \in Slots :
         /\ loops[i].pc \in {"free", "op", "timer", "done"}
         /\ loops[i].left \in Nat
    /\ stopWait \subseteq Slots
    /\ hist.fails \in 0..MaxCount
    /\ \A c \in DOMAIN calls :
         /\ calls[c].pc \in {"ready", "attempt", "sleep", "settled"}
         /\ calls[c].cur \in Nat
         /\ calls[c].attempts \in Nat /\ calls[c].sleeps \in Nat
         /\ calls[c].result.kind \in {"pending", "resolved", "rejected"}

(***************************************************************************)
(* The arithmetic of one poll cycle.                                       *)
(***************************************************************************)

\* currentDelay * factor
Times(d, o) == (d * o.factorNum) \div o.factorDen
Exact(d, o) == (d * o.factorNum) % o.factorDen = 0

\* Variant: the options-object revision clamping on ">" as the positional one does.
SaturatedOptionsStrict(d, o) == d * o.factorNum > o.maxDelay * o.factorDen

\* if (this.currentDelay >= this.options.maxDelay.totalMilliseconds), after the
\* multiplication: options-object revision
SaturatedOptions(d, o) == d * o.factorNum >= o.maxDelay * o.factorDen
\* the same test in the awaitable-stop revision
SaturatedAwaitable(d, o) == d * o.factorNum >= o.maxDelay * o.factorDen
\* if (this.currentDelay > this.maxDelay.totalMilliseconds): positional revision
SaturatedPositional(d, o) == d * o.factorNum > o.maxDelay * o.factorDen

Saturated(r, d, o) ==
    CASE r = "options" -> SaturatedOptions(d, o)
      [] r = "awaitable" -> SaturatedAwaitable(d, o)
      [] r = "positional" -> SaturatedPositional(d, o)

\* Variant: the multiplied delay is never clamped to maxDelay.
DelayAfterFailureUnclamped(r, d, o) == Times(d, o)

\* The catch block: the delay after a failed cycle.
DelayAfterFailure(r, d, o) == IF Saturated(r, d, o) THEN o.maxDelay ELSE Times(d, o)

\* The catch block: the callback a failed cycle calls.
CallbackOfFailure(r, d, o) == IF Saturated(r, d, o) THEN "onFail" ELSE "onError"

\* The model's bound on a failed cycle: the new delay is a whole number.
Representable(r, d, o) == Saturated(r, d, o) \/ Exact(d, o)

\* Variant: a success decays the delay whether or not resetPeriod has passed.
DelayAfterSuccessAlways(d, errSet, age, o) == Max(o.initialDelay, d - o.linearStep)

\* Variant: the decayed delay is not floored at initialDelay.
DelayAfterSuccessNoFloor(d, errSet, age, o) ==
    IF ~errSet \/ age >= o.resetPeriod
    THEN Max(0, d - o.linearStep)
    ELSE d

\* The try block after the await: the delay after a successful cycle.  errSet and
\* age are lastErrorTime's truthiness and now - lastErrorTime.
DelayAfterSuccess(d, errSet, age, o) ==
    IF ~errSet \/ age >= o.resetPeriod
    THEN Max(o.initialDelay, d - o.linearStep)
    ELSE d

\* JSON.stringify(error); it returns undefined, not a string, for undefined.
Undefined == "undefined"
JSONstringify(v) ==
    CASE v.type = "string" -> "\"" \o v.val \o "\""
      [] v.type = "number" -> v.val
      [] v.type = "null" -> "null"
      [] v.type = "Error" -> "{}"
      [] OTHER -> Undefined

\* new Error(message): an undefined message leaves the message empty.
NewError(message) ==
    Value("Error", IF message = Undefined THEN "" ELSE message, "created")

\* Variant: every thrown value is wrapped, an Error instance too.
ResultErrorAlwaysWrapped(error) == NewError(JSONstringify(error))

\* error instanceof Error ? error : new Error(JSON.stringify(error))
ResultError(error) ==
    IF error.type = "Error" THEN error ELSE NewError(JSONstringify(error))

\* The value a callback is called with, if one is called.
Handed(called, error) == IF called = <<>> THEN NoValue ELSE ResultError(error)

\* this.onFail?.(resultError) / this.onError?.(resultError): the calls made.
Invoke(sel, e, f) ==
    CASE sel = "onFail" -> IF f = NoCb THEN <<>> ELSE <<f>>
      [] sel = "onError" -> IF e = NoCb THEN <<>> ELSE <<e>>
      [] OTHER -> <<>>

CountFail(h) == [h EXCEPT !.fails = Min(h.fails + 1, MaxCount)]
CountOk(h) == [h EXCEPT !.ok = TRUE]

\* The lowest slot holding no runPoll invocation.
FreeSlot(i) ==
    /\ loops[i].pc = "free"
    /\ \A j \in Slots : j < i => loops[j].pc # "free"

\* Variant: nothing is scheduled after a cycle.
NothingScheduled(l, d) == Free

\* setTimeout(..., d) / Wait(d)
Sleeping(l, d) == [l EXCEPT !.pc = "timer", !.left = d]

(***************************************************************************)
(* start(operation, onError, onFail)                                       *)
(***************************************************************************)

\* Variant: start() does not look at this.polling.
NeverPolling(p) == FALSE

\* if (this.polling) return;
AlreadyPolling(p) == p

\* Timer revisions.  start() ends by calling runPoll(), whose guard passes
\* (polling was just set, the operation is set) and which calls the operation.
startTimer(op, e, f) ==
    IF AlreadyPolling(polling)
    THEN /\ out' = [Ev("start") EXCEPT !.noop = TRUE]
         /\ UNCHANGED <<rev, options, polling, operation, onError, onFail, currentDelay,
                        lastErrorSet, elapsed, currentTimeout, task, loops, stopWait, hist>>
    ELSE \E i \in Slots :
         /\ FreeSlot(i)
         /\ polling' = TRUE
         /\ operation' = op
         /\ onError' = e
         /\ onFail' = f
         /\ currentDelay' = options.initialDelay
         /\ loops' = [loops EXCEPT ![i] = [Free EXCEPT !.pc = "op"]]
         /\ out' = [Ev("start") EXCEPT !.log = <<"info: AdaptivePolling started">>]
         /\ hist' = NoHist
         /\ UNCHANGED <<rev, options, lastErrorSet, elapsed, currentTimeout, task, stopWait>>

\* get isPolling() of the awaitable-stop revision
isPolling(t) == t # 0

\* Variant: this.task already holds the new promise while runPoll starts.
TaskAssignedBeforeRunPoll(old, new) == new

\* this.task = this.runPoll(): the call is evaluated before the assignment, so
\* while runPoll runs up to its first await this.task is still the old value.
TaskSeenByRunPoll(old, new) == old

\* runPoll's guard and the loop condition, as start() finds them.
RunPollEnters(t, op) == ~(~isPolling(t) \/ op = NoOp) /\ isPolling(t)

\* Awaitable-stop revision.
startAwaitable(op, e, f) ==
    IF isPolling(task)
    THEN /\ out' = [Ev("start") EXCEPT !.noop = TRUE,
                      !.log = <<"warning: AdaptivePolling is already running">>]
         /\ UNCHANGED <<rev, options, polling, operation, onError, onFail, currentDelay,
                        lastErrorSet, elapsed, currentTimeout, task, loops, stopWait, hist>>
    ELSE \E i \in Slots :
         /\ FreeSlot(i)
         /\ operation' = op
         /\ onError' = e
         /\ onFail' = f
         /\ task' = i
         /\ IF RunPollEnters(TaskSeenByRunPoll(task, i), op)
            THEN /\ loops' = [loops EXCEPT ![i] =
                        [Free EXCEPT !.pc = "op", !.cur = options.initialDelay]]
                 /\ out' = [Ev("start") EXCEPT !.log = <<"info: AdaptivePolling started">>]
            ELSE \* the guard logs, calls stop() (which returns at once: not polling)
                 \* and returns: the promise is settled before it is stored
                 /\ loops' = [loops EXCEPT ![i] = [Free EXCEPT !.pc = "done"]]
                 /\ out' = [Ev("start") EXCEPT
                              !.log = <<"warning: AdaptivePolling runPoll called while not polling",
                                        "info: AdaptivePolling started">>]
         /\ hist' = NoHist
         /\ UNCHANGED <<rev, options, polling, currentDelay, lastErrorSet, elapsed,
                        currentTimeout, stopWait>>

start(op, e, f) ==
    IF rev = "awaitable" THEN startAwaitable(op, e, f) ELSE startTimer(op, e, f)

Start == \E a \in StartArgs : start(a[1], a[2], a[3])

(***************************************************************************)
(* stop()                                                                  *)
(***************************************************************************)

\* clearTimeout(this.currentTimeout): a timer that has fired is not there to clear.
ClearTimeout(ls, h) ==
    IF h # 0 /\ ls[h].pc = "timer" THEN [ls EXCEPT ![h] = Free] ELSE ls

stopTimer ==
    /\ polling' = FALSE
    /\ loops' = ClearTimeout(loops, currentTimeout)
    /\ out' = [Ev("stop") EXCEPT !.log = <<"info: AdaptivePolling stopped">>]
    /\ UNCHANGED <<rev, options, operation, onError, onFail, currentDelay, lastErrorSet,
                   elapsed, currentTimeout, task, stopWait, hist>>

\* Variant: this.task is cleared only once the awaited promise has settled.
TaskKeptWhileStopping(t) == t

\* const task = this.task; this.task = undefined; await task;
TaskWhileStopping(t) == 0

\* get isPolling() of the revision at hand
IsPolling == IF rev = "awaitable" THEN isPolling(task) ELSE polling

\* Up to `await task`.
stopAwaitable ==
    IF ~isPolling(task)
    THEN /\ out' = [Ev("stop") EXCEPT !.noop = TRUE]
         /\ UNCHANGED <<rev, options, polling, operation, onError, onFail, currentDelay,
                        lastErrorSet, elapsed, currentTimeout, task, loops, stopWait, hist>>
    ELSE /\ task' = TaskWhileStopping(task)
         /\ stopWait' = stopWait \cup {task}
         /\ out' = Ev("stop")
         /\ UNCHANGED <<rev, options, polling, operation, onError, onFail, currentDelay,
                        lastErrorSet, elapsed, currentTimeout, loops, hist>>

Stop == IF rev = "awaitable" THEN stopAwaitable ELSE stopTimer

\* `await task` is over once the runPoll promise is settled.
TaskSettled(l) == l.pc = "done"

\* stop() after `await task`: its own promise settles.
StopResumes ==
    \E i \in stopWait :
    /\ TaskSettled(loops[i])
    /\ stopWait' = stopWait \ {i}
    /\ loops' = [loops EXCEPT ![i] = IF loops[i].pc = "done" THEN Free ELSE loops[i]]
    /\ out' = [Ev("stopped") EXCEPT !.log = <<"info: AdaptivePolling stopped">>]
    /\ hist' = [hist EXCEPT !.stopped = ~isPolling(task)]
    /\ UNCHANGED <<rev, options, polling, operation, onError, onFail, currentDelay,
                   lastErrorSet, elapsed, currentTimeout, task>>

(***************************************************************************)
(* runPoll: the promise of this.operation() settles                        *)
(***************************************************************************)

\* Timer revisions: the rest of try / catch, then scheduleNextPoll().
opCompletesTimer(i, outcome, error) ==
    /\ loops[i].pc = "op"
    /\ IF outcome = "ok"
       THEN /\ currentDelay' = DelayAfterSuccess(currentDelay, lastErrorSet, elapsed, options)
            /\ out' = Ev("opOk")
            /\ hist' = CountOk(hist)
            /\ UNCHANGED <<lastErrorSet, elapsed>>
       ELSE /\ Representable(rev, currentDelay, options)
            /\ lastErrorSet' = TRUE
            /\ elapsed' = 0
            /\ currentDelay' = DelayAfterFailure(rev, currentDelay, options)
            /\ LET sel == CallbackOfFailure(rev, currentDelay, options)
                   called == Invoke(sel, onError, onFail)
               IN  out' = [Ev("opFail") EXCEPT !.sel = sel, !.cb = called,
                             !.thrown = error, !.err = Handed(called, error)]
            /\ hist' = CountFail(hist)
    /\ loops' = [loops EXCEPT ![i] = Sleeping(Free, currentDelay')]
    /\ currentTimeout' = i
    /\ UNCHANGED <<rev, options, polling, operation, onError, onFail, task, stopWait>>

\* Awaitable-stop revision: the rest of try / catch, then finally's Wait(currentDelay).
opCompletesAwaitable(i, outcome, error) ==
    /\ loops[i].pc = "op"
    /\ IF outcome = "ok"
       THEN IF ~isPolling(task)
            THEN \* if (!this.isPolling) return;  finally still waits
                 /\ loops' = [loops EXCEPT ![i] =
                        [Sleeping(loops[i], loops[i].cur) EXCEPT !.ret = TRUE]]
                 /\ out' = [Ev("opOk") EXCEPT !.noop = TRUE]
                 /\ UNCHANGED hist
            ELSE LET d == DelayAfterSuccess(loops[i].cur, loops[i].errSet, loops[i].age, options)
                 IN  /\ loops' = [loops EXCEPT ![i] = [Sleeping(loops[i], d) EXCEPT !.cur = d]]
                     /\ out' = Ev("opOk")
                     /\ hist' = CountOk(hist)
       ELSE LET d == DelayAfterFailure(rev, loops[i].cur, options)
                sel == CallbackOfFailure(rev, loops[i].cur, options)
            IN  /\ Representable(rev, loops[i].cur, options)
                /\ loops' = [loops EXCEPT ![i] =
                       [Sleeping(loops[i], d) EXCEPT !.cur = d, !.errSet = TRUE, !.age = 0]]
                /\ out' = [Ev("opFail") EXCEPT !.sel = sel,
                             !.cb = Invoke(sel, onError, onFail),
                             !.thrown = error,
                             !.err = Handed(Invoke(sel, onError, onFail), error)]
                /\ hist' = CountFail(hist)
    /\ UNCHANGED <<rev, options, polling, operation, onError, onFail, currentDelay,
                   lastErrorSet, elapsed, currentTimeout, task, stopWait>>

\* The operation rejecting with one of `errors`.
OpCompletesWith(errors) ==
    \E i \in Slots, outcome \in Outcomes :
        \E error \in ThrownBy(outcome, errors) :
            IF rev = "awaitable"
            THEN opCompletesAwaitable(i, outcome, error)
            ELSE opCompletesTimer(i, outcome, error)

\* The operation resolving, or rejecting with an Error instance.
OpCompletes == OpCompletesWith({ThrownError})

\* The operation resolving, or rejecting with any of the thrown values.
OpCompletesThrowing == OpCompletesWith(ThrownValues)

\* Timer revisions: the operation rejects and the callback the catch block calls
\* throws.  The positional revision calls scheduleNextPoll() after the callback
\* inside the catch block, so the throw leaves the block before it; the
\* options-object revision calls it in finally, which runs all the same.
opFailsCallbackThrows(i, error) ==
    /\ rev \in TimerRevisions
    /\ loops[i].pc = "op"
    /\ Representable(rev, currentDelay, options)
    /\ LET sel == CallbackOfFailure(rev, currentDelay, options)
           called == Invoke(sel, onError, onFail)
       IN  /\ called # <<>>
           /\ out' = [Ev("callbackThrows") EXCEPT !.sel = sel, !.cb = called,
                         !.thrown = error, !.err = Handed(called, error)]
    /\ lastErrorSet' = TRUE
    /\ elapsed' = 0
    /\ currentDelay' = DelayAfterFailure(rev, currentDelay, options)
    /\ hist' = CountFail(hist)
    /\ IF rev = "positional"
       THEN /\ loops' = [loops EXCEPT ![i] = Free]
            /\ UNCHANGED currentTimeout
       ELSE /\ loops' = [loops EXCEPT ![i] = Sleeping(Free, currentDelay')]
            /\ currentTimeout' = i
    /\ UNCHANGED <<rev, options, polling, operation, onError, onFail, task, stopWait>>

OpFailsCallbackThrows == \E i \in Slots : opFailsCallbackThrows(i, ThrownError)

(***************************************************************************)
(* runPoll: the timer fires                                                *)
(***************************************************************************)

\* Variant: runPoll does not look at this.polling.
GuardReturnsUnlessOperation(p, op) == op = NoOp

\* if (!this.polling || !this.operation) return;
GuardReturns(p, op) == ~p \/ op = NoOp

\* Timer revisions: setTimeout's callback calls runPoll().
timerFiresTimer(i) ==
    /\ loops[i].pc = "timer"
    /\ loops[i].left = 0
    /\ loops' = [loops EXCEPT ![i] =
           IF GuardReturns(polling, operation)
           THEN Free
           ELSE [Free EXCEPT !.pc = "op"]]
    /\ out' = Ev("timer")
    /\ UNCHANGED <<rev, options, polling, operation, onError, onFail, currentDelay,
                   lastErrorSet, elapsed, currentTimeout, task, stopWait, hist>>

\* An async function that has returned: its promise is settled, and is kept only
\* while this.task or a pending stop() holds it.
Returned(i, t, w) == IF i = t \/ i \in w THEN [Free EXCEPT !.pc = "done"] ELSE Free

\* Awaitable-stop revision: Wait() resolves; `return` completes or the loop goes round.
timerFiresAwaitable(i) ==
    /\ loops[i].pc = "timer"
    /\ loops[i].left = 0
    /\ loops' = [loops EXCEPT ![i] =
           IF loops[i].ret \/ ~isPolling(task)
           THEN Returned(i, task, stopWait)
           ELSE [loops[i] EXCEPT !.pc = "op", !.left = 0]]
    /\ out' = Ev("timer")
    /\ UNCHANGED <<rev, options, polling, operation, onError, onFail, currentDelay,
                   lastErrorSet, elapsed, currentTimeout, task, stopWait, hist>>

TimerFires ==
    \E i \in Slots :
        IF rev = "awaitable" THEN timerFiresAwaitable(i) ELSE timerFiresTimer(i)

(***************************************************************************)
(* The clock                                                               *)
(***************************************************************************)

\* Time moves to the next timer's deadline, or by a Duration when none is pending.
Pending == {i \in Slots : loops[i].pc = "timer" /\ loops[i].left > 0}
TimeSteps ==
    IF Pending = {}
    THEN Durations
    ELSE {loops[i].left : i \in {j \in Pending : \A k \in Pending : loops[j].left <= loops[k].left}}

Advance ==
    \E dt \in TimeSteps :
    /\ loops' = [i \in Slots |->
           [loops[i] EXCEPT !.left = Max(0, @ - dt),
                            !.age = IF loops[i].errSet
                                    THEN Min(@ + dt, options.resetPeriod) ELSE @]]
    /\ elapsed' = IF lastErrorSet THEN Min(elapsed + dt, options.resetPeriod) ELSE elapsed
    /\ out' = Ev("advance")
    /\ UNCHANGED <<rev, options, polling, operation, onError, onFail, currentDelay,
                   lastErrorSet, currentTimeout, task, stopWait, hist>>

nonPollerVars == <<backoffVars, restVars, libVars>>
nonBackoffVars == <<pollerVars, restVars, libVars>>

(***************************************************************************)
(* ExponentialBackoff                                                      *)
(***************************************************************************)

\* options.jitter left out
NoJitter == -1

BOpt(i, m, n, d, j) ==
    [initialDelay |-> i, maxDelay |-> m, factorNum |-> n, factorDen |-> d, jitter |-> j]

\* What RestRequest builds when it is given no options: 5 s, 30 s, factor 2.
RestRequestDefaults == BOpt(5000, 30000, 2, 1, NoJitter)

\* The ExponentialBackoffOptions the model is run with.  Every delay they lead
\* to is a whole number of milliseconds.
BackoffConfigs ==
    { RestRequestDefaults,
      BOpt(1000, 1000, 2, 1, NoJitter),    \* initialDelay = maxDelay
      BOpt(2000, 1000, 2, 1, NoJitter),    \* initialDelay > maxDelay
      BOpt(1000, 2000, 1, 1, NoJitter),    \* factor 1
      BOpt(1000, 2000, 3, 2, NoJitter),    \* factor 1.5
      BOpt(0, 1000, 2, 1, NoJitter),       \* initialDelay 0
      BOpt(1000, 4000, 2, 1, 500) }        \* jitter 500 ms

Calls == 1..MaxCalls

\* How a promise stands: pending, resolved with a value, rejected with an error.
\* Value k is what the k-th attempt resolves with, error k what it rejects with;
\* error 0 is null.
Unsettled == [kind |-> "pending", v |-> 0]
Resolved(v) == [kind |-> "resolved", v |-> v]
Rejected(e) == [kind |-> "rejected", v |-> e]

\* One execute() call.  pc: "ready" not called yet; "attempt" awaiting
\* this.attempt(operation); "sleep" awaiting Wait(currentDelay); "settled" the
\* executor has returned.  cur and lastError are the locals currentDelay (ms) and
\* lastError; result is the promise execute() returned; attempts, sleeps, inflight
\* and slept count the invocations of the operation, the Waits, the invocations
\* not yet settled, and hold the duration of the last Wait.
Ready ==
    [pc |-> "ready", cur |-> 0, lastError |-> 0, result |-> Unsettled,
     attempts |-> 0, sleeps |-> 0, inflight |-> 0, slept |-> 0]

\* Variant: the loop does not look at maxDelay.
LoopAlways(d, o) == TRUE

\* while (currentDelay <= this.options.maxDelay): TimeSpan.valueOf() compares ms
LoopContinues(d, o) == d <= o.maxDelay

\* Variant: the random source can give 1, the jitter can be all of jitter ms.
RandomUpTo(j) == {0, j}

\* Math.random() * jitter ms: some values of [0, jitter)
RandomBelow(j) == IF j = 0 THEN {0} ELSE {0, j \div 2, j - 1}
Jitters(o) == IF o.jitter = NoJitter THEN {0} ELSE RandomBelow(o.jitter)

\* Variant: the updated delay is clamped to maxDelay.
getUpdatedDelayClamped(d, o, jitter) == Min(o.maxDelay, Times(d, o) + jitter)

\* getUpdatedDelay(currentDelay), with the jitter Math.random() gave
getUpdatedDelay(d, o, jitter) == Times(d, o) + jitter

\* Variant: attempt() resolves, but not with the operation's result.
attemptDropsResult(settlement) ==
    IF settlement.kind = "resolved" THEN Resolved(0) ELSE settlement

\* attempt(operation): its promise settles as the operation's does.
attempt(settlement) == settlement

\* The head of the loop with currentDelay d: the next attempt calls the
\* operation, or the loop is over and reject(lastError) is called.
Enter(l, d, o) ==
    IF LoopContinues(d, o)
    THEN [l EXCEPT !.pc = "attempt", !.cur = d,
                   !.attempts = Min(@ + 1, MaxAttempts), !.inflight = @ + 1]
    ELSE [l EXCEPT !.pc = "settled", !.cur = d, !.result = Rejected(l.lastError)]

\* Variant: resolve(result) is not followed by return, the loop goes on.
AfterSuccessLoops(l, v, o) == [Enter(l, l.cur, o) EXCEPT !.result = Resolved(v)]

\* resolve(result); return;
AfterSuccess(l, v, o) == [l EXCEPT !.pc = "settled", !.result = Resolved(v)]

\* Variant: currentDelay is a field of the instance, which every call advances.
AfterFailureSharedDelay(l, e, o) ==
    [l EXCEPT !.lastError = e, !.pc = "sleep",
              !.cur = IF \A d \in Calls : calls[d].cur <= l.cur THEN l.cur
                      ELSE CHOOSE x \in {calls[d].cur : d \in Calls} :
                              \A d \in Calls : calls[d].cur <= x,
              !.slept = l.cur, !.sleeps = Min(@ + 1, MaxAttempts)]

\* Variant: only the first failure is recorded in lastError.
AfterFailureKeepsFirst(l, e, o) ==
    [l EXCEPT !.lastError = IF @ = 0 THEN e ELSE @, !.pc = "sleep", !.slept = l.cur,
              !.sleeps = Min(@ + 1, MaxAttempts)]

\* lastError = error; await Wait(currentDelay);
AfterFailure(l, e, o) ==
    [l EXCEPT !.lastError = e, !.pc = "sleep", !.slept = l.cur,
              !.sleeps = Min(@ + 1, MaxAttempts)]

\* execute(operation), up to its first await
Execute(c) ==
    /\ calls[c].pc = "ready"
    /\ calls' = [calls EXCEPT ![c] = Enter(Ready, backoffOptions.initialDelay, backoffOptions)]
    /\ UNCHANGED backoffOptions

\* The promise of this.attempt(operation) settles.
AttemptSettles(c, outcome) ==
    /\ calls[c].pc = "attempt"
    /\ LET l == [calls[c] EXCEPT !.inflight = @ - 1]
           k == calls[c].attempts
           settlement == attempt(IF outcome = "ok" THEN Resolved(k) ELSE Rejected(k))
       IN  calls' = [calls EXCEPT ![c] =
               IF settlement.kind = "resolved"
               THEN AfterSuccess(l, settlement.v, backoffOptions)
               ELSE AfterFailure(l, settlement.v, backoffOptions)]
    /\ UNCHANGED backoffOptions

\* Wait(currentDelay) resolves: the delay is updated and the loop goes round.
WaitResolves(c) ==
    /\ calls[c].pc = "sleep"
    /\ \E jitter \in Jitters(backoffOptions) :
           calls' = [calls EXCEPT ![c] =
               Enter(calls[c], getUpdatedDelay(calls[c].cur, backoffOptions, jitter),
                     backoffOptions)]
    /\ UNCHANGED backoffOptions

(***************************************************************************)
(* RestRequest                                                             *)
(***************************************************************************)

\* One get() or post() call: the method, the promise it returned, and what its
\* handlers raised outside that promise (the errors thrown in the catch handler,
\* which reject the promise of the chain that nobody holds).
NoRequest == [method |-> "none", promise |-> Unsettled, raised |-> <<>>]
Methods == {"get", "post"}

\* Variant: the catch handler throws whatever the flag is.
RaisedAlways(flag, error) == <<error>>

\* if (this.throwException) throw error;
Raised(flag, error) == IF flag THEN <<error>> ELSE <<>>

\* .then((response) => resolve(response)).catch((error) => { reject(error); ... })
\* run on the settled promise of execute().
Handlers(q, result, flag) ==
    IF result.kind = "resolved"
    THEN [q EXCEPT !.promise = Resolved(result.v)]
    ELSE [q EXCEPT !.promise = Rejected(result.v), !.raised = @ \o Raised(flag, result.v)]

\* get(url, config) / post(url, data, config): the promise is created and
\* this.backoff.execute() is called with the axios call as its operation.
Request(c, method) ==
    /\ requests[c].method = "none"
    /\ Execute(c)
    /\ requests' = [requests EXCEPT ![c] = [NoRequest EXCEPT !.method = method]]
    /\ UNCHANGED throwException

\* The promise of execute() has settled: the handlers chained on it run.
PromiseReacts(c) ==
    /\ requests[c].method # "none"
    /\ requests[c].promise.kind = "pending"
    /\ calls[c].result.kind # "pending"
    /\ requests' = [requests EXCEPT ![c] = Handlers(requests[c], calls[c].result, throwException)]
    /\ UNCHANGED <<throwException, backoffVars>>

(***************************************************************************)
(* TimeSpan and Rate                                                       *)
(***************************************************************************)

\* A call of the library and how it ended: kind "returns" or "throws"; class what
\* was returned; val the milliseconds of the TimeSpan returned, or the number
\* returned; flag the boolean returned; msg the message of the Error thrown;
\* chain the calls chained so far on temporaries; on the call (its name and
\* arguments) that returned the temporary this call was made on.
NoCall ==
    [fn |-> "none", args |-> <<>>, kind |-> "none", class |-> "none", val |-> 0,
     flag |-> FALSE, msg |-> "", chain |-> 0, on |-> <<>>]
Returns(fn, args, class, val) ==
    [NoCall EXCEPT !.fn = fn, !.args = args, !.kind = "returns", !.class = class, !.val = val]
Throws(fn, args, msg) == [NoCall EXCEPT !.fn = fn, !.args = args, !.kind = "throws", !.msg = msg]

\* A TimeSpan holds ms; a Rate holds rate and interval, a reference to a TimeSpan.
TimeSpanOf(ms) == [class |-> "TimeSpan", ms |-> ms, rate |-> 0, interval |-> 0]
RateOf(rate, interval) == [class |-> "Rate", ms |-> 0, rate |-> rate, interval |-> interval]
Spans == {i \in 1..Len(heap) : heap[i].class = "TimeSpan"}
\* The TimeSpans a method can be called on: those kept, and as 0 the one the
\* last call returned (a.add(b).subtract(b)).
Temporary == IF ret.kind = "returns" /\ ret.class = "TimeSpan" THEN {0} ELSE {}
Operands == Spans \cup (IF ret.chain < MaxChain THEN Temporary ELSE {})
MsOf(i) == IF i = 0 THEN ret.val ELSE heap[i].ms
\* A method called on the TimeSpan the last call returned continues the chain.
OnTemporary(fn, args) == fn \in {"add", "subtract", "equals"} /\ args[1] = 0
Chained(fn, args) == IF OnTemporary(fn, args) THEN ret.chain + 1 ELSE 0
CalledOn(fn, args) == IF OnTemporary(fn, args) THEN <<ret.fn>> \o ret.args ELSE <<>>
Rates == {i \in 1..Len(heap) : heap[i].class = "Rate"}

\* Infinity, above every sum the model forms.
Infinity == 10 * MaxSafe
\* The distance between the numbers of JavaScript around the magnitude a.
RECURSIVE Ulp(_)
Ulp(a) == IF a <= MaxSafe THEN 1 ELSE 2 * Ulp(a \div 2)
\* The number of JavaScript nearest to the whole number x, ties to even.
Round(x) ==
    LET a == IF x < 0 THEN -x ELSE x
        u == Ulp(a)
        q == a \div u
        m == a % u
        r == IF a >= Infinity THEN Infinity
             ELSE IF 2 * m < u \/ (2 * m = u /\ q % 2 = 0) THEN q * u ELSE (q + 1) * u
    IN  IF x < 0 THEN -r ELSE r

\* Variant: the sum stops at MaxSafe.
PlusSaturating(a, b) == Min(a + b, MaxSafe)
\* this.ms + other.ms
Plus(a, b) == Round(a + b)
\* Variant: a difference below zero is taken as zero.
MinusClamped(a, b) == Max(0, a - b)
\* this.ms - other.ms
Minus(a, b) == Round(a - b)
\* this.ms === other.ms
Equals(a, b) == a = b
\* interval.totalMilliseconds / rate, to the whole millisecond; a division by
\* zero is no failure in JavaScript, it gives Infinity.
Divide(a, r) == IF r = 0 THEN Infinity ELSE a \div r

\* The amounts the constructor is called with, and the counts the factories are.
Amounts == {-1, 0, 1, MaxSafe}
Counts == {-1, 1}
\* fromDays, fromHours, fromMinutes, fromSeconds, fromMilliseconds: the factor
Units ==
    { <<"fromDays", 24 * 60 * 60 * 1000>>, <<"fromHours", 60 * 60 * 1000>>,
      <<"fromMinutes", 60 * 1000>>, <<"fromSeconds", 1000>>, <<"fromMilliseconds", 1>> }
\* The rates a Rate is built with.
RateArgs == {-1, 0, 1, 5}

\* Variant: the constructor takes any amount.
NeverNegative(ms) == FALSE
\* if (milliseconds < 0)
Negative(ms) == ms < 0

\* Variant: a rate of zero is let through.
BelowZero(rate) == rate < 0
\* if (rate <= 0)
NonPositive(rate) == rate <= 0

\* What new TimeSpan, zero(), new Rate and Rate.of return is kept while there is
\* room, the result of another factory or of a method is not.
Keep(h, fn, obj) ==
    IF Len(h) < MaxObjects /\ fn \in {"constructor", "zero", "Rate", "Rate.of"}
    THEN Append(h, obj) ELSE h

\* new TimeSpan(ms), as the constructor or a method called by fn(args) runs it
Constructed(fn, args, ms) ==
    IF Negative(ms)
    THEN /\ ret' = [Throws(fn, args, "Milliseconds cannot be negative") EXCEPT
                       !.on = CalledOn(fn, args)]
         /\ UNCHANGED heap
    ELSE /\ ret' = [Returns(fn, args, "TimeSpan", ms) EXCEPT
                       !.chain = Chained(fn, args), !.on = CalledOn(fn, args)]
         /\ heap' = Keep(heap, fn, TimeSpanOf(ms))

\* new TimeSpan(milliseconds), new TimeSpan()
TimeSpanNew ==
    \/ \E a \in Amounts : Constructed("constructor", <<a>>, a)
    \/ Constructed("constructor", <<>>, 0)

TimeSpanZero == Constructed("zero", <<>>, 0)

TimeSpanFromTimeSpan == \E i \in Spans : Constructed("fromTimeSpan", <<i>>, MsOf(i))

TimeSpanFrom == \E u \in Units, n \in Counts : Constructed(u[1], <<n>>, n * u[2])

TimeSpanAdd ==
    \E i \in Operands, j \in Spans : Constructed("add", <<i, j>>, Plus(MsOf(i), MsOf(j)))

TimeSpanSubtract ==
    \E i \in Operands, j \in Spans :
        Constructed("subtract", <<i, j>>, Minus(MsOf(i), MsOf(j)))

TimeSpanEquals ==
    \E i \in Spans \cup Temporary, j \in Spans :
        /\ ret' = [Returns("equals", <<i, j>>, "boolean", 0) EXCEPT
                       !.flag = Equals(MsOf(i), MsOf(j)),
                       !.on = CalledOn("equals", <<i, j>>)]
        /\ UNCHANGED heap

\* new Rate(rate, interval), Rate.of(rate, interval)
RateNew ==
    \E fn \in {"Rate", "Rate.of"}, rate \in RateArgs, i \in Spans :
        IF NonPositive(rate)
        THEN /\ ret' = Throws(fn, <<rate, i>>, "Rate must be a positive number")
             /\ UNCHANGED heap
        ELSE /\ ret' = Returns(fn, <<rate, i>>, "Rate", rate)
             /\ heap' = Keep(heap, fn, RateOf(rate, i))

\* get delay()
RateDelay ==
    \E k \in Rates :
        Constructed("delay", <<k>>, Divide(heap[heap[k].interval].ms, heap[k].rate))

(***************************************************************************)
(* Mathf.max and Mathf.min                                                 *)
(***************************************************************************)

\* Mathf only compares the values the selector gives, so a value is modelled by
\* its place in the order of the numbers: below zero, zero, Number.MIN_VALUE
\* (the smallest number above zero), the numbers between, Number.MAX_VALUE (the
\* largest finite number) and Infinity right above it.
MIN_VALUE == 1
MAX_VALUE == 6
SelectorValues == {-2, 0, MIN_VALUE, 3, MAX_VALUE, MAX_VALUE + 1}
\* An iterable is the sequence of the selector's values of its items; an item is
\* named by its position, and 0 stands for undefined.
Iterables == UNION {[1..n -> SelectorValues] : n \in 0..MaxItems}

\* for (const item of array) { if (value > max) { max = value; result = item } }
RECURSIVE MaxLoop(_, _, _, _)
MaxLoop(array, k, max, result) ==
    IF k > Len(array) THEN result
    ELSE IF array[k] > max THEN MaxLoop(array, k + 1, array[k], k)
    ELSE MaxLoop(array, k + 1, max, result)
\* Mathf.max(array, selector)
Mathf_max(array) == MaxLoop(array, 1, MIN_VALUE, 0)

\* for (const item of array) { if (value < min) { min = value; result = item } }
RECURSIVE MinLoop(_, _, _, _)
MinLoop(array, k, min, result) ==
    IF k > Len(array) THEN result
    ELSE IF array[k] < min THEN MinLoop(array, k + 1, array[k], k)
    ELSE MinLoop(array, k + 1, min, result)
\* Mathf.min(array, selector)
Mathf_min(array) == MinLoop(array, 1, MAX_VALUE, 0)

MathfMax ==
    \E array \in Iterables :
        ret' = Returns("max", array, IF Mathf_max(array) = 0 THEN "undefined" ELSE "item",
                       Mathf_max(array))

MathfMin ==
    \E array \in Iterables :
        ret' = Returns("min", array, IF Mathf_min(array) = 0 THEN "undefined" ELSE "item",
                       Mathf_min(array))

(***************************************************************************)
(* ServiceLogger                                                           *)
(***************************************************************************)

\* No call of a logging method yet. method is the method called, handed the
\* level of the winston method the message was handed to (Undefined: to none),
\* written the transports that wrote it, returned what the method returned.
NoMessage == [method |-> "none", handed |-> Undefined, written |-> {}, returned |-> NoValue]
\* No ServiceLogger yet. given is the options object the caller passed (Undefined
\* for an omitted option, the empty string for an omitted string), verbose, serviceName and filter are this.options,
\* level is the level of the winston logger, transports its transports in the
\* order added, added the calls of addTransport so far and last the last call
\* of a logging method.
NoOptions ==
    [verbose |-> Undefined, serviceName |-> <<>>, logLevel |-> Undefined,
     globalLogLevel |-> Undefined, globalFilter |-> <<>>]
NoLogger ==
    [created |-> FALSE, given |-> NoOptions, verbose |-> "false", serviceName |-> <<>>,
     level |-> Undefined, filter |-> <<>>, transports |-> <<>>, added |-> 0,
     last |-> NoMessage]
\* The relative paths and the levels addTransport is called with.
RelativePaths == {"a.log", "b.log"}
TransportLevels == {Undefined, "error"}

\* enum LogLevel, and LogLevelMap
LogLevels == {"debug", "info", "warn", "error"}
LogLevelMap(level) ==
    CASE level = "error" -> 1 [] level = "warn" -> 2 [] level = "info" -> 3 [] level = "debug" -> 4

\* A string is the sequence of its characters; a name stands in as one character.
\* The entries of a filter string are what lies between its commas.
FilterEntries ==
    { <<"a">>, <<"!", "a">>, <<" ", "!", "a", " ">>, <<"!", " ", "a">>, <<"b">>, <<"!", "b">>,
      <<>> }
RECURSIVE SeqsUpTo(_, _)
SeqsUpTo(S, n) ==
    IF n = 0 THEN {<<>>}
    ELSE SeqsUpTo(S, n - 1) \cup {Append(q, x) : q \in SeqsUpTo(S, n - 1), x \in S}
\* The filter strings: omitted, or up to MaxEntries entries.
FilterStrings == SeqsUpTo(FilterEntries, MaxEntries)
\* The options a ServiceLogger is created with where its verbosity is in
\* question, where its levels are, and where its name and its filter are.
VerboseOptions == {[NoOptions EXCEPT !.verbose = v] : v \in {"true", "false", Undefined}}
LevelOptions ==
    { [NoOptions EXCEPT !.logLevel = l, !.globalLogLevel = g] :
        l \in LogLevels \cup {Undefined}, g \in LogLevels \cup {Undefined} }
FilterOptions ==
    { [NoOptions EXCEPT !.serviceName = n, !.globalFilter = f] :
        n \in {<<"a">>, <<>>}, f \in FilterStrings }

File(filename, level) == [kind |-> "File", filename |-> filename, level |-> level]
Console == [kind |-> "Console", filename |-> "", level |-> Undefined]

\* a || b of JavaScript, on an optional boolean a
OrElse(a, b) == IF a = "true" THEN a ELSE b
\* Variant: a ?? b, the default taken only where a is omitted.
VerboseGivenOrTrue(given) == IF given = Undefined THEN "true" ELSE given
\* verbose: options.verbose || true
VerboseOf(given) == OrElse(given, "true")
\* a || b on an optional level a, and on an optional string a
Default(a, b) == IF a = Undefined THEN b ELSE a
DefaultString(a, b) == IF a = <<>> THEN b ELSE a

\* String.prototype.trim
RECURSIVE TrimStart(_)
TrimStart(str) == IF str # <<>> /\ Head(str) = " " THEN TrimStart(Tail(str)) ELSE str
RECURSIVE TrimEnd(_)
TrimEnd(str) ==
    IF str # <<>> /\ str[Len(str)] = " " THEN TrimEnd(SubSeq(str, 1, Len(str) - 1)) ELSE str
Trim(str) == TrimEnd(TrimStart(str))
\* item.startsWith("!"), item.replace(/^!/, "")
StartsWithBang(str) == str # <<>> /\ Head(str) = "!"
WithoutBang(str) == IF StartsWithBang(str) THEN Tail(str) ELSE str

\* Variant: an entry already in the map stays.
MapSetKeepsFirst(map, name, isIncluded) ==
    [n \in DOMAIN map \cup {name} |-> IF n \in DOMAIN map THEN map[n] ELSE isIncluded]
\* map.set(name, isIncluded)
MapSet(map, name, isIncluded) ==
    [n \in DOMAIN map \cup {name} |-> IF n = name THEN isIncluded ELSE map[n]]

\* input.split(",").forEach(...) of parseFilter, from the k-th entry on
RECURSIVE ForEachEntry(_, _, _)
ForEachEntry(entries, k, map) ==
    IF k > Len(entries) THEN map
    ELSE LET item == Trim(entries[k])
         IN  IF item = <<>> THEN ForEachEntry(entries, k + 1, map)
             ELSE ForEachEntry(entries, k + 1,
                               MapSet(map, Trim(WithoutBang(item)), ~StartsWithBang(item)))
\* parseFilter(input): the empty map if (!input)
parseFilter(input) == IF input = <<>> THEN <<>> ELSE ForEachEntry(input, 1, <<>>)

\* get isObservable()
isObservable(l) == IF l.serviceName \in DOMAIN l.filter THEN l.filter[l.serviceName] ELSE TRUE

\* Variant: the less severe of the two levels.
LessSevereLevel(globalLogLevel, targetLogLevel) ==
    IF LogLevelMap(globalLogLevel) > LogLevelMap(targetLogLevel)
    THEN globalLogLevel ELSE targetLogLevel
\* const logLevel = LogLevelMap[globalLogLevel] < LogLevelMap[targetLogLevel] ? ...
LevelOf(globalLogLevel, targetLogLevel) ==
    IF LogLevelMap(globalLogLevel) < LogLevelMap(targetLogLevel)
    THEN globalLogLevel ELSE targetLogLevel

\* createWinstonLogger(options): the two file transports, and the console one
\* if (options.verbose)
createWinstonLogger(verbose) ==
    <<File("logs/error.log", "error"), File("logs/combined.log", Undefined)>>
        \o (IF verbose = "true" THEN <<Console>> ELSE <<>>)

\* new ServiceLogger(given)
ServiceLoggerNew(given) ==
    /\ ~logger.created
    /\ logger' =
          [created |-> TRUE, given |-> given,
           verbose |-> VerboseOf(given.verbose),
           serviceName |-> DefaultString(given.serviceName, <<"nameless-service">>),
           level |-> LevelOf(Default(given.globalLogLevel, "debug"),
                             Default(given.logLevel, "debug")),
           filter |-> parseFilter(given.globalFilter),
           transports |-> createWinstonLogger(VerboseOf(given.verbose)),
           added |-> 0, last |-> NoMessage]

\* The levels of winston (npm): a transport writes a message whose level is no
\* higher than its own level, or than the logger's where it has none.
NpmLevel(level) ==
    CASE level = "error" -> 0 [] level = "warn" -> 1 [] level = "info" -> 2 [] level = "debug" -> 5
Writes(l, k, level) ==
    NpmLevel(level)
        <= NpmLevel(IF l.transports[k].level = Undefined THEN l.level ELSE l.transports[k].level)
\* this.logger.info / warn / debug / error (message)
HandedOn(l, method, level) ==
    [method |-> method, handed |-> level,
     written |-> {k \in DOMAIN l.transports : Writes(l, k, level)}, returned |-> NoValue]
NotHanded(method) == [NoMessage EXCEPT !.method = method]

\* info(message), debug(message): if (!this.isObservable) return
LoggerInfo ==
    /\ logger.created
    /\ logger' = [logger EXCEPT !.last = IF ~isObservable(logger) THEN NotHanded("info")
                                         ELSE HandedOn(logger, "info", "info")]
LoggerDebug ==
    /\ logger.created
    /\ logger' = [logger EXCEPT !.last = IF ~isObservable(logger) THEN NotHanded("debug")
                                         ELSE HandedOn(logger, "debug", "debug")]
\* warning(message)
LoggerWarning ==
    /\ logger.created
    /\ logger' = [logger EXCEPT !.last = HandedOn(logger, "warning", "warn")]
\* error(message): return new Error(message)
LoggerError ==
    /\ logger.created
    /\ \E message \in {"failed"} :
          logger' = [logger EXCEPT !.last = [HandedOn(logger, "error", "error") EXCEPT
                                                !.returned = NewError(message)]]

\* addTransport(relativePath, logLevel)
AddTransport ==
    /\ logger.created
    /\ logger.added < MaxTransports
    /\ \E relativePath \in RelativePaths, logLevel \in TransportLevels :
          logger' = [logger EXCEPT
                        !.added = @ + 1,
                        !.transports =
                            IF logger.verbose # "true" THEN @
                            ELSE Append(@, File(relativePath, logLevel))]

(***************************************************************************)
(* ConfigReader                                                            *)
(***************************************************************************)

\* A configuration object is the function from its own keys to their values.
ConfigKeys == {"host", "port"}
ConfigValues == {"x", "y"}
Objects == UNION {[K -> ConfigValues] : K \in SUBSET ConfigKeys}
\* What JSON.parse gives for a valid text: an object, or a value with no keys of
\* its own (null, a number, a boolean).
JsonValues == [type : {"object"}, keys : Objects] \cup {[type |-> "null", keys |-> <<>>]}
\* What reading the file gives: a failure (no such file), or its text, with or
\* without a byte order mark before it; the text is valid JSON for a value or not.
NoFile == [exists |-> FALSE, bom |-> FALSE, valid |-> FALSE, value |-> [type |-> "null", keys |-> <<>>]]
Files ==
    {NoFile} \cup [exists : {TRUE}, bom : BOOLEAN, valid : {TRUE}, value : JsonValues]
             \cup [exists : {TRUE}, bom : BOOLEAN, valid : {FALSE},
                   value : {[type |-> "null", keys |-> <<>>]}]

\* IOFile.read(filePath): the text without its byte order mark, or a rejection
IOFileRead(file) ==
    IF file.exists THEN [ok |-> TRUE, text |-> [file EXCEPT !.bom = FALSE]]
    ELSE [ok |-> FALSE, text |-> file]
\* JSON.parse(fileContent): a byte order mark is no JSON
JSONparse(text) ==
    IF text.valid /\ ~text.bom THEN [ok |-> TRUE, value |-> text.value]
    ELSE [ok |-> FALSE, value |-> text.value]
\* Variant: the first source wins on a shared key.
ObjectAssignFirstWins(first, second) ==
    [k \in DOMAIN first \cup DOMAIN second |-> IF k \in DOMAIN first THEN first[k] ELSE second[k]]
\* Object.assign({}, first, second), on the own keys of the sources
ObjectAssign(first, second) ==
    [k \in DOMAIN first \cup DOMAIN second |-> IF k \in DOMAIN second THEN second[k] ELSE first[k]]

\* A call of readConfig: the reader has a logger or not; file is what the path
\* holds; result is what the promise resolved with and same whether that is the
\* defaultConfig object itself; defaultAfter is defaultConfig after the call;
\* logged are the calls of logger.error.
ConfigCall(hasLogger, file, defaultConfig, result, same, failed) ==
    [fn |-> "readConfig", kind |-> "resolves", hasLogger |-> hasLogger, file |-> file,
     defaultConfig |-> defaultConfig, defaultAfter |-> defaultConfig,
     result |-> result, same |-> same,
     logged |-> IF failed /\ hasLogger
                THEN <<"Error reading or parsing the configuration file:">> ELSE <<>>]

\* new ConfigReader(logger?).readConfig(configPath, defaultConfig)
ReadConfig ==
    \E hasLogger \in BOOLEAN, file \in Files, defaultConfig \in Objects :
        LET read == IOFileRead(file)
            parsed == JSONparse(read.text)
        IN  ret' = IF read.ok /\ parsed.ok
                   THEN ConfigCall(hasLogger, file, defaultConfig,
                                   ObjectAssign(defaultConfig, parsed.value.keys), FALSE, FALSE)
                   ELSE ConfigCall(hasLogger, file, defaultConfig, defaultConfig, TRUE, TRUE)

(***************************************************************************)
(* The specifications                                                      *)
(***************************************************************************)

\* No RestRequest call is made.
RestIdle ==
    /\ throwException = FALSE
    /\ requests = [c \in Calls |-> NoRequest]

\* Nothing of TimeSpan, Rate, Mathf or ServiceLogger is used.
LibIdle ==
    /\ heap = <<>>
    /\ ret = NoCall
    /\ logger = NoLogger

\* No execute() call is made on the ExponentialBackoff instance.
BackoffIdle ==
    /\ backoffOptions = RestRequestDefaults
    /\ calls = [c \in Calls |-> Ready]

Init ==
    /\ BackoffIdle
    /\ RestIdle
    /\ LibIdle
    /\ rev \in Revisions
    /\ options \in ConfigsOf(rev)
    /\ polling = FALSE
    /\ operation = NoOp
    /\ onError = NoCb
    /\ onFail = NoCb
    /\ currentDelay = options.initialDelay
    /\ lastErrorSet = FALSE
    /\ elapsed = 0
    /\ currentTimeout = 0
    /\ task = 0
    /\ loops = [i \in Slots |-> Free]
    /\ stopWait = {}
    /\ out = Quiet
    /\ hist = NoHist

Next ==
    \/ Start /\ UNCHANGED nonPollerVars
    \/ Stop /\ UNCHANGED nonPollerVars
    \/ StopResumes /\ UNCHANGED nonPollerVars
    \/ OpCompletes /\ UNCHANGED nonPollerVars
    \/ TimerFires /\ UNCHANGED nonPollerVars
    \/ Advance /\ UNCHANGED nonPollerVars

Spec == Init /\ [][Next]_vars

\* For the claims about what the delay comes to in the long run: one poller of the
\* options-object revision, started with one argument list.  The event loop runs
\* every timer that is due, the operation's promise settles, and time passes.
FairConfigs ==
    { BackoffScenario,
      ExactOptions,
      DefaultFactorOptions,
      Opt(1000, 3000, 1, 2, 1000, 1000) }

InitFair == Init /\ rev = "options" /\ options \in FairConfigs

StartFair == start("opA", "onError", "onFail")

NextFair ==
    \/ StartFair /\ UNCHANGED nonPollerVars
    \/ Stop /\ UNCHANGED nonPollerVars
    \/ OpCompletes /\ UNCHANGED nonPollerVars
    \/ TimerFires /\ UNCHANGED nonPollerVars
    \/ Advance /\ UNCHANGED nonPollerVars

FairSpec ==
    /\ InitFair
    /\ [][NextFair]_vars
    /\ WF_vars(OpCompletes /\ UNCHANGED nonPollerVars)
    /\ WF_vars(TimerFires /\ UNCHANGED nonPollerVars)
    /\ WF_vars(Advance /\ UNCHANGED nonPollerVars)

\* For the claims about what the callbacks are handed: a poller of any revision
\* whose operation rejects with values of every kind.
InitThrow == Init /\ options = ExactOptions

NextThrow ==
    \/ Start /\ UNCHANGED nonPollerVars
    \/ Stop /\ UNCHANGED nonPollerVars
    \/ StopResumes /\ UNCHANGED nonPollerVars
    \/ OpCompletesThrowing /\ UNCHANGED nonPollerVars
    \/ TimerFires /\ UNCHANGED nonPollerVars
    \/ Advance /\ UNCHANGED nonPollerVars

ThrowSpec == InitThrow /\ [][NextThrow]_vars

\* As Spec for the two timer revisions, with callbacks that may throw.
InitCallback == Init /\ rev \in TimerRevisions

NextCallback ==
    \/ Start /\ UNCHANGED nonPollerVars
    \/ Stop /\ UNCHANGED nonPollerVars
    \/ OpCompletes /\ UNCHANGED nonPollerVars
    \/ OpFailsCallbackThrows /\ UNCHANGED nonPollerVars
    \/ TimerFires /\ UNCHANGED nonPollerVars
    \/ Advance /\ UNCHANGED nonPollerVars

CallbackSpec == InitCallback /\ [][NextCallback]_vars

\* ExponentialBackoff: one instance with any of the options, the poller idle.
\* The poller is not used.
PollerIdle ==
    /\ rev = "options"
    /\ options = BackoffScenario
    /\ polling = FALSE
    /\ operation = NoOp
    /\ onError = NoCb
    /\ onFail = NoCb
    /\ currentDelay = options.initialDelay
    /\ lastErrorSet = FALSE
    /\ elapsed = 0
    /\ currentTimeout = 0
    /\ task = 0
    /\ loops = [i \in Slots |-> Free]
    /\ stopWait = {}
    /\ out = Quiet
    /\ hist = NoHist

BackoffInit ==
    /\ backoffOptions \in BackoffConfigs
    /\ calls = [c \in Calls |-> Ready]
    /\ PollerIdle
    /\ RestIdle
    /\ LibIdle

BackoffNext ==
    \/ \E c \in Calls : Execute(c) /\ UNCHANGED nonBackoffVars
    \/ \E c \in Calls, outcome \in Outcomes : AttemptSettles(c, outcome) /\ UNCHANGED nonBackoffVars
    \/ \E c \in Calls : WaitResolves(c) /\ UNCHANGED nonBackoffVars

BackoffSpec == BackoffInit /\ [][BackoffNext]_vars

\* The operation fails on every attempt; every pending promise settles.
BackoffFailingNext ==
    \/ \E c \in Calls : Execute(c) /\ UNCHANGED nonBackoffVars
    \/ \E c \in Calls : AttemptSettles(c, "fail") /\ UNCHANGED nonBackoffVars
    \/ \E c \in Calls : WaitResolves(c) /\ UNCHANGED nonBackoffVars

BackoffFailingSpec ==
    /\ BackoffInit
    /\ [][BackoffFailingNext]_vars
    /\ \A c \in Calls : WF_vars(AttemptSettles(c, "fail") /\ UNCHANGED nonBackoffVars)
    /\ \A c \in Calls : WF_vars(WaitResolves(c) /\ UNCHANGED nonBackoffVars)

\* RestRequest: one instance with either flag and any backoff options; every
\* get() / post() call runs one execute() call.
RestInit ==
    /\ throwException \in BOOLEAN
    /\ requests = [c \in Calls |-> NoRequest]
    /\ backoffOptions \in BackoffConfigs
    /\ calls = [c \in Calls |-> Ready]
    /\ PollerIdle
    /\ LibIdle

RestNext ==
    \/ \E c \in Calls, method \in Methods : Request(c, method) /\ UNCHANGED <<pollerVars, libVars>>
    \/ \E c \in Calls, outcome \in Outcomes : AttemptSettles(c, outcome) /\ UNCHANGED nonBackoffVars
    \/ \E c \in Calls : WaitResolves(c) /\ UNCHANGED nonBackoffVars
    \/ \E c \in Calls : PromiseReacts(c) /\ UNCHANGED <<pollerVars, libVars>>

RestSpec == RestInit /\ [][RestNext]_vars

\* TimeSpan: instances are created and their methods called.
TimeInit ==
    /\ heap = <<>>
    /\ ret = NoCall
    /\ logger = NoLogger
    /\ PollerIdle
    /\ BackoffIdle
    /\ RestIdle

TimeNext ==
    \/ TimeSpanNew /\ UNCHANGED <<logger, pollerVars, backoffVars, restVars>>
    \/ TimeSpanZero /\ UNCHANGED <<logger, pollerVars, backoffVars, restVars>>
    \/ TimeSpanFromTimeSpan /\ UNCHANGED <<logger, pollerVars, backoffVars, restVars>>
    \/ TimeSpanFrom /\ UNCHANGED <<logger, pollerVars, backoffVars, restVars>>
    \/ TimeSpanAdd /\ UNCHANGED <<logger, pollerVars, backoffVars, restVars>>
    \/ TimeSpanSubtract /\ UNCHANGED <<logger, pollerVars, backoffVars, restVars>>
    \/ TimeSpanEquals /\ UNCHANGED <<logger, pollerVars, backoffVars, restVars>>

TimeSpec == TimeInit /\ [][TimeNext]_vars

\* Rate: TimeSpans are constructed, Rates built on them and their delay read.
RateNext ==
    \/ TimeSpanNew /\ UNCHANGED <<logger, pollerVars, backoffVars, restVars>>
    \/ RateNew /\ UNCHANGED <<logger, pollerVars, backoffVars, restVars>>
    \/ RateDelay /\ UNCHANGED <<logger, pollerVars, backoffVars, restVars>>

RateSpec == TimeInit /\ [][RateNext]_vars

\* Mathf: max and min are called on iterables.
MathNext ==
    \/ MathfMax /\ UNCHANGED <<heap, logger, pollerVars, backoffVars, restVars>>
    \/ MathfMin /\ UNCHANGED <<heap, logger, pollerVars, backoffVars, restVars>>

MathSpec == TimeInit /\ [][MathNext]_vars

\* ServiceLogger: a logger is created and transports are added to it.
LoggerNext ==
    \/ /\ \E given \in VerboseOptions : ServiceLoggerNew(given)
       /\ UNCHANGED <<heap, ret, pollerVars, backoffVars, restVars>>
    \/ AddTransport /\ UNCHANGED <<heap, ret, pollerVars, backoffVars, restVars>>

LoggerSpec == TimeInit /\ [][LoggerNext]_vars

\* ServiceLogger: a logger is created with levels and a filter, and messages are
\* logged through it.
LogNext ==
    \/ /\ \E given \in LevelOptions \cup FilterOptions : ServiceLoggerNew(given)
       /\ UNCHANGED <<heap, ret, pollerVars, backoffVars, restVars>>
    \/ LoggerInfo /\ UNCHANGED <<heap, ret, pollerVars, backoffVars, restVars>>
    \/ LoggerWarning /\ UNCHANGED <<heap, ret, pollerVars, backoffVars, restVars>>
    \/ LoggerDebug /\ UNCHANGED <<heap, ret, pollerVars, backoffVars, restVars>>
    \/ LoggerError /\ UNCHANGED <<heap, ret, pollerVars, backoffVars, restVars>>

LogSpec == TimeInit /\ [][LogNext]_vars

\* ConfigReader: configurations are read.
ConfigNext == ReadConfig /\ UNCHANGED <<heap, logger, pollerVars, backoffVars, restVars>>

ConfigSpec == TimeInit /\ [][ConfigNext]_vars

(***************************************************************************)
(* Sanity of the model                                                     *)
(***************************************************************************)

Running == IF rev = "awaitable" THEN isPolling(task) ELSE polling

\* With factor >= 1 the model never has to hold back a failed cycle: the new
\* delay is always a whole number of milliseconds.
GrowthIsExact ==
    (rev \in TimerRevisions /\ options.factorNum >= options.factorDen)
        => Representable(rev, currentDelay, options)

(***************************************************************************)
(* The claims                                                              *)
(***************************************************************************)

\* C1: in the timer-based options-object revision at most one invocation of the
\* operation is in flight and at most one poll loop is live, whatever the
\* interleaving of start(), stop(), timers and completions.
C1_OneInFlightOneLoop ==
    rev = "options" => Cardinality(InFlight) <= 1 /\ Cardinality(LiveSlots) <= 1

\* C2: in the awaitable-stop revision, from a start() on an idle poller until
\* stop() the poll cycle is going: an invocation of the operation is in flight
\* or the loop sleeps before the next one.
C2_RunningPollerCycles ==
    (rev = "awaitable" /\ isPolling(task)) => LiveSlots # {}

C4_StartWhileRunningIsNoOp ==
    [][ (out'.ev = "start" /\ Running)
          => UNCHANGED <<polling, operation, onError, onFail, currentDelay, lastErrorSet,
                         elapsed, currentTimeout, task, loops, stopWait>> ]_vars

C4_Witness ==
    /\ out.ev = "start" /\ out.noop
    /\ rev = "options" /\ operation = "opA" /\ currentDelay > options.initialDelay

BackoffDelays == <<2000, 4000, 5000, 5000, 5000, 5000>>

GrowingOptions ==
    /\ options.factorNum > options.factorDen
    /\ 0 < options.initialDelay
    /\ options.initialDelay <= options.maxDelay

C8_SuccessfulCycle ==
    [][ (out'.ev = "opOk" /\ rev \in {"options", "awaitable"} /\ ~out'.noop) =>
          LET o == options
              Holds(d, d2, set, age) ==
                  /\ d2 = IF ~set \/ age >= o.resetPeriod
                          THEN (IF d - o.linearStep > o.initialDelay
                                THEN d - o.linearStep ELSE o.initialDelay)
                          ELSE d
                  /\ (o = DecayScenario /\ d = 1800) => d2 = 1600
          IN  /\ out'.cb = <<>> /\ out'.sel = "none"
              /\ IF rev = "options"
                 THEN Holds(currentDelay, currentDelay', lastErrorSet, elapsed)
                 ELSE \E i \in Slots :
                        /\ loops[i].pc = "op" /\ loops'[i].pc = "timer"
                        /\ Holds(loops[i].cur, loops'[i].cur, loops[i].errSet, loops[i].age) ]_vars

C8_Witness ==
    /\ rev = "options" /\ options = DecayScenario /\ out.ev = "opOk"
    /\ hist.fails >= 1 /\ lastErrorSet /\ currentDelay = 1600

\* C9 as claimed: after one failed cycle followed by successful ones only
\* (linearStep > 0, poller not stopped) currentDelay never goes up from a cycle to
\* the next.  Read with a single loop and initialDelay <= maxDelay.
C9_NeverIncreases ==
    [][ (/\ out'.ev = "opOk" /\ rev = "options" /\ hist.fails = 1
         /\ options.linearStep > 0 /\ options.initialDelay <= options.maxDelay
         /\ polling /\ Cardinality(LiveSlots) = 1)
          => currentDelay' <= currentDelay ]_vars

DecayingOptions ==
    /\ options.linearStep > 0
    /\ options.factorNum >= options.factorDen
    /\ options.initialDelay <= options.maxDelay

\* C9 amended: provided factor >= 1 and initialDelay <= maxDelay, after one failed
\* cycle followed by successful ones only (linearStep > 0, poller not stopped)
\* currentDelay never goes up, reaches initialDelay and stays there.
C9_DecaysToInitialDelay ==
    /\ [][ (out'.ev = "opOk" /\ rev = "options" /\ DecayingOptions /\ hist.fails = 1) =>
             /\ currentDelay' <= currentDelay
             /\ currentDelay = options.initialDelay => currentDelay' = options.initialDelay ]_vars
    /\ (rev = "options" /\ DecayingOptions /\ polling /\ hist.fails = 1)
           ~> (currentDelay = options.initialDelay \/ ~polling \/ hist.fails # 1)

C9_Witness ==
    /\ rev = "options" /\ DecayingOptions /\ polling /\ hist.fails = 1 /\ hist.ok
    /\ options.initialDelay < options.maxDelay /\ options.resetPeriod > 0
    /\ out.ev = "opOk" /\ currentDelay = options.initialDelay /\ lastErrorSet

BoundedOptions ==
    /\ 0 < options.initialDelay
    /\ options.initialDelay <= options.maxDelay
    /\ options.factorNum >= options.factorDen

C11_CycleSchedulesNext ==
    /\ [][ (rev = "options" /\ polling /\ out'.ev \in {"opOk", "opFail"}) =>
             /\ polling'
             /\ \E i \in Slots :
                    /\ loops[i].pc = "op"
                    /\ loops'[i].pc = "timer" /\ loops'[i].left = currentDelay'
                    /\ currentTimeout' = i
                    /\ \A j \in Slots \ {i} : loops'[j] = loops[j] ]_vars
    /\ [][ (rev = "options" /\ polling /\ out'.ev = "timer") =>
             \E i \in Slots :
                /\ loops[i].pc = "timer" /\ loops[i].left = 0
                /\ loops'[i].pc = "op"
                /\ \A j \in Slots \ {i} : loops'[j] = loops[j] ]_vars

C11_Witness ==
    /\ rev = "options" /\ polling /\ out.ev = "opFail" /\ hist.fails >= 2
    /\ Cardinality(LiveSlots) = 1
    /\ \E i \in Slots : loops[i].pc = "timer" /\ loops[i].left = currentDelay

\* C12: in the timer revisions a start() that takes effect begins a fresh
\* session: currentDelay is initialDelay and no failure time is recorded, whatever
\* happened in a session ended by stop().
C12_StartBeginsFreshSession ==
    (rev \in TimerRevisions /\ out.ev = "start" /\ ~out.noop)
        => (currentDelay = options.initialDelay /\ ~lastErrorSet)

\* C13: in the positional revision a failed cycle whose multiplied delay equals
\* maxDelay exactly calls the fail callback and not the error callback.
C13_ExactMaxCallsFail ==
    [][ (/\ rev = "positional" /\ out'.ev = "opFail"
         /\ currentDelay * options.factorNum = options.maxDelay * options.factorDen)
          => (out'.sel = "onFail" /\ out'.cb = Invoke("onFail", onError, onFail)) ]_vars

\* C14 as claimed: a callback is handed an Error: the thrown value itself when
\* that is an Error instance, otherwise a new Error whose message is the JSON
\* serialization of the thrown value.
C14_HandedErrorIsSerialization ==
    (out.ev = "opFail" /\ out.cb # <<>>) =>
        /\ out.err.type = "Error"
        /\ IF out.thrown.type = "Error"
           THEN out.err = out.thrown
           ELSE out.err.ref = "created" /\ out.err.val = JSONstringify(out.thrown)

\* C14 amended: as claimed where the thrown value has a JSON serialization; where
\* JSON.stringify yields undefined (a thrown undefined) the new Error's message is
\* empty.
C14_HandedErrorIsNormalized ==
    (out.ev = "opFail" /\ out.cb # <<>>) =>
        /\ out.err.type = "Error"
        /\ IF out.thrown.type = "Error"
           THEN out.err = out.thrown
           ELSE /\ out.err.ref = "created"
                /\ out.err.val = CASE out.thrown.type = "undefined" -> ""
                                    [] out.thrown.type = "null" -> "null"
                                    [] out.thrown.type = "number" -> out.thrown.val
                                    [] out.thrown.type = "string" ->
                                           "\"" \o out.thrown.val \o "\""
        /\ out.thrown = Value("string", "boom", "thrown")
               => out.err = Value("Error", "\"boom\"", "created")

C14_Witness ==
    /\ out.ev = "opFail" /\ out.cb = <<"onError">>
    /\ out.thrown.type = "string" /\ out.err.type = "Error" /\ out.err.ref = "created"

\* The counts of a call are exact while they have not reached MaxAttempts.
Counted(l) == l.attempts < MaxAttempts

\* C15: when the operation fails on attempts 1..N-1 and succeeds on attempt N,
\* execute resolves with the N-th attempt's value after exactly N invocations of
\* the operation and exactly N-1 sleeps.
C15_SucceedsOnNthAttempt ==
    \A c \in Calls :
        (calls[c].result.kind = "resolved" /\ Counted(calls[c])) =>
            /\ calls[c].result.v = calls[c].attempts
            /\ calls[c].sleeps = calls[c].attempts - 1
            /\ calls[c].lastError = calls[c].attempts - 1
            /\ calls[c].pc = "settled" /\ calls[c].inflight = 0

C15_Witness ==
    \E c \in Calls :
        /\ calls[c].result = Resolved(3)
        /\ calls[c].attempts = 3 /\ calls[c].sleeps = 2

\* C16 as claimed: whenever execute rejects, at least one attempt was made and
\* the rejection value is the error of the last attempt.
C16_RejectsWithLastError ==
    \A c \in Calls :
        (calls[c].result.kind = "rejected" /\ Counted(calls[c])) =>
            /\ calls[c].attempts >= 1
            /\ calls[c].result.v = calls[c].attempts

\* C16 amended: provided initialDelay <= maxDelay, whenever execute rejects, at
\* least one attempt was made and the rejection value is the error of the last
\* attempt.
C16_RejectsWithLastErrorIfEntered ==
    backoffOptions.initialDelay <= backoffOptions.maxDelay =>
        \A c \in Calls :
            (calls[c].result.kind = "rejected" /\ Counted(calls[c])) =>
                /\ calls[c].attempts >= 1
                /\ calls[c].result.v = calls[c].attempts

C16_Witness ==
    /\ backoffOptions.initialDelay <= backoffOptions.maxDelay
    /\ \E c \in Calls : calls[c].result = Rejected(3) /\ calls[c].attempts = 3

\* C17 as claimed: with initialDelay <= maxDelay, factor >= 1, no jitter and an
\* operation failing on every attempt, execute eventually rejects.
C17_FailingForeverRejects ==
    \A c \in Calls :
        (/\ calls[c].pc # "ready"
         /\ backoffOptions.initialDelay <= backoffOptions.maxDelay
         /\ backoffOptions.factorNum >= backoffOptions.factorDen
         /\ backoffOptions.jitter = NoJitter)
            ~> (calls[c].result.kind = "rejected")

\* C17 amended: with 0 < initialDelay <= maxDelay, factor > 1, no jitter and an
\* operation failing on every attempt, execute eventually rejects, with a delay
\* above maxDelay.
C17_FailingForeverRejectsIfGrowing ==
    \A c \in Calls :
        (/\ calls[c].pc # "ready"
         /\ 0 < backoffOptions.initialDelay
         /\ backoffOptions.initialDelay <= backoffOptions.maxDelay
         /\ backoffOptions.factorNum > backoffOptions.factorDen
         /\ backoffOptions.jitter = NoJitter)
            ~> (calls[c].result.kind = "rejected" /\ calls[c].cur > backoffOptions.maxDelay)

C17_Witness ==
    /\ 0 < backoffOptions.initialDelay
    /\ backoffOptions.initialDelay < backoffOptions.maxDelay
    /\ backoffOptions.factorNum > backoffOptions.factorDen
    /\ backoffOptions.jitter = NoJitter
    /\ \E c \in Calls :
          /\ calls[c].result.kind = "rejected" /\ calls[c].attempts >= 2
          /\ calls[c].cur > backoffOptions.maxDelay

\* C18: an attempt starts only with currentDelay <= maxDelay, so every sleep
\* lasts at most maxDelay; with initialDelay <= maxDelay (equal included) the
\* first attempt runs.
C18_AttemptsWithinMaxDelay ==
    \A c \in Calls :
        /\ calls[c].pc \in {"attempt", "sleep"} => calls[c].cur <= backoffOptions.maxDelay
        /\ calls[c].pc = "sleep" => calls[c].slept = calls[c].cur
        /\ calls[c].slept <= backoffOptions.maxDelay
        /\ (calls[c].pc # "ready" /\ backoffOptions.initialDelay <= backoffOptions.maxDelay)
              => calls[c].attempts >= 1

C18_Witness ==
    /\ backoffOptions.initialDelay = backoffOptions.maxDelay
    /\ \E c \in Calls :
          /\ calls[c].pc = "sleep" /\ calls[c].attempts = 1
          /\ calls[c].slept = backoffOptions.maxDelay

\* C19: within one execute call at most one invocation of the operation is in
\* flight; an attempt after the first starts only when the one before has failed
\* and the sleep after it is over; none starts once the call has settled.
C19_OneAttemptInFlight ==
    /\ [](\A c \in Calls :
            /\ calls[c].inflight <= 1
            /\ calls[c].pc = "attempt" <=> calls[c].inflight = 1
            /\ calls[c].result.kind # "pending" => calls[c].pc = "settled"
            /\ (calls[c].pc = "attempt" /\ Counted(calls[c]))
                  => (calls[c].sleeps = calls[c].attempts - 1
                      /\ calls[c].lastError = calls[c].attempts - 1))
    /\ [][ \A c \in Calls :
             (calls'[c].pc = "attempt" /\ calls'[c] # calls[c])
                => (calls[c].pc \in {"ready", "sleep"} /\ calls[c].inflight = 0) ]_vars

C19_Witness ==
    \E c \in Calls :
        /\ calls[c].pc = "attempt" /\ calls[c].attempts = 3 /\ calls[c].inflight = 1
        /\ \E d \in Calls \ {c} : calls[d].result.kind = "resolved"

\* C20: without jitter the delay update is exactly currentDelay * factor, for
\* factor >= 1 and every currentDelay, and is not clamped to maxDelay.
C20_UpdateIsExactProduct ==
    [][ \A c \in Calls :
          (/\ calls[c].pc = "sleep" /\ calls'[c] # calls[c]
           /\ backoffOptions.jitter = NoJitter
           /\ backoffOptions.factorNum >= backoffOptions.factorDen)
            => /\ calls'[c].cur * backoffOptions.factorDen
                     = calls[c].cur * backoffOptions.factorNum
               /\ getUpdatedDelay(calls[c].cur, backoffOptions, 0) = calls'[c].cur ]_vars

C20_Witness ==
    /\ backoffOptions.jitter = NoJitter
    /\ backoffOptions.factorNum > backoffOptions.factorDen
    /\ \E c \in Calls :
          /\ calls[c].pc = "settled" /\ calls[c].sleeps >= 2
          /\ calls[c].cur > backoffOptions.maxDelay

C23_WarningOnlyWhenRunning ==
    (rev = "awaitable" /\ out.ev = "start") =>
        IF out.noop
        THEN out.log = <<"warning: AdaptivePolling is already running">>
        ELSE out.log = <<"info: AdaptivePolling started">>

\* C22: the promise of get() / post() settles once, as the promise of the
\* execute() call under it does: resolved with the response, rejected with the
\* last error; with throwException the same error is also raised outside the
\* promise, once, and without it nothing is raised.
C22_RequestSettlesAsExecute ==
    /\ [](\A c \in Calls :
            IF requests[c].promise.kind = "pending"
            THEN requests[c].raised = <<>>
            ELSE /\ requests[c].promise = calls[c].result
                 /\ requests[c].raised =
                        IF throwException /\ calls[c].result.kind = "rejected"
                        THEN <<calls[c].result.v>> ELSE <<>>)
    /\ [][ \A c \in Calls :
             requests[c].promise.kind # "pending" => requests'[c] = requests[c] ]_vars

C22_Witness ==
    /\ throwException
    /\ \E c \in Calls :
          /\ requests[c].method = "post" /\ requests[c].promise = Rejected(3)
          /\ requests[c].raised = <<3>>
    /\ \E c \in Calls :
          requests[c].method = "get" /\ requests[c].promise = Resolved(2)

\* C24: every TimeSpan holds a non-negative number of milliseconds: the
\* constructor and every from* factory throw 'Milliseconds cannot be negative'
\* for a negative amount, the default constructor and zero() give 0 ms, and no
\* operation (add, subtract, fromTimeSpan) yields an instance with negative
\* milliseconds or mutates an existing instance.
C24_TimeSpanNonNegative ==
    /\ [](/\ \A i \in Spans : heap[i].ms >= 0
          /\ (ret.kind = "returns" /\ ret.class = "TimeSpan") => ret.val >= 0
          /\ ( /\ ret.fn \in {"constructor"} \cup {u[1] : u \in Units}
               /\ ret.args # <<>>
               /\ ret.args[1] < 0 )
             => (ret.kind = "throws" /\ ret.msg = "Milliseconds cannot be negative")
          /\ (ret.fn = "zero" \/ (ret.fn = "constructor" /\ ret.args = <<>>))
             => (ret.kind = "returns" /\ ret.class = "TimeSpan" /\ ret.val = 0))
    /\ [][\A i \in 1..Len(heap) : Len(heap') >= i /\ heap'[i] = heap[i]]_vars
\* A factory has thrown for a negative amount while two instances of different
\* lengths exist.
C24_Witness ==
    /\ Len(heap) = 2
    /\ heap[1].ms < heap[2].ms
    /\ ret.fn = "fromHours" /\ ret.args = <<-1>> /\ ret.kind = "throws"

\* C25: a.subtract(b) returns a TimeSpan of a-b milliseconds (the number
\* this.ms - other.ms is) when a >= b and throws 'Milliseconds cannot be negative'
\* when a < b; in both cases a and b are unchanged.
C25_SubtractOrThrow ==
    [][\A i \in Operands, j \in Spans :
         (ret'.fn = "subtract" /\ ret'.args = <<i, j>>) =>
            /\ IF MsOf(i) >= MsOf(j)
               THEN /\ ret'.kind = "returns" /\ ret'.class = "TimeSpan"
                    /\ ret'.val = Minus(MsOf(i), MsOf(j))
               ELSE /\ ret'.kind = "throws"
                    /\ ret'.msg = "Milliseconds cannot be negative"
            /\ heap' = heap]_vars
\* A subtraction of a longer span from a shorter one has thrown.
C25_Witness ==
    /\ ret.fn = "subtract" /\ ret.kind = "throws"
    /\ ret.args[1] \in Spans
    /\ heap[ret.args[1]].ms < heap[ret.args[2]].ms

\* The call was a.add(b).subtract(b), a and b kept instances.
RoundTrip(a, b) ==
    /\ ret.fn = "subtract" /\ ret.args = <<0, b>>
    /\ ret.on = <<"add", a, b>>
    /\ a \in Spans /\ b \in Spans
\* The sum of the two spans is a number of JavaScript.
ExactSum(a, b) == Round(heap[a].ms + heap[b].ms) = heap[a].ms + heap[b].ms
\* a.add(b) has this.ms + other.ms milliseconds, as b.add(a) has; equals answers
\* whether the two spans have the same milliseconds.
AddAndEquals ==
    [][\A i \in Spans \cup Temporary, j \in Spans :
         /\ (ret'.fn = "add" /\ ret'.args = <<i, j>>) =>
                /\ ret'.kind = "returns" /\ ret'.class = "TimeSpan"
                /\ ret'.val = Plus(MsOf(i), MsOf(j))
                /\ Equals(ret'.val, Plus(MsOf(j), MsOf(i)))
         /\ (ret'.fn = "equals" /\ ret'.args = <<i, j>>) =>
                /\ ret'.kind = "returns" /\ ret'.class = "boolean"
                /\ ret'.flag = (MsOf(i) = MsOf(j))]_vars

\* C26 as stated: a.add(b) has a+b milliseconds, a.add(b).equals(b.add(a)),
\* a.add(b).subtract(b).equals(a), and equals is true exactly for equal
\* milliseconds.
C26_AddSubtractRoundTrip ==
    /\ AddAndEquals
    /\ [](\A a \in Spans, b \in Spans :
            RoundTrip(a, b) => (ret.kind = "returns" /\ Equals(ret.val, heap[a].ms)))
\* C26, amended: a.add(b).subtract(b).equals(a) where the sum of a and b is a
\* number of JavaScript exactly (as for whole milliseconds up to 2^53); the rest
\* as stated.
C26_AddSubtractRoundTripIfExact ==
    /\ AddAndEquals
    /\ [](\A a \in Spans, b \in Spans :
            (RoundTrip(a, b) /\ ExactSum(a, b))
                => (ret.kind = "returns" /\ Equals(ret.val, heap[a].ms)))
\* a.add(b).subtract(b) came back to a positive a.
C26_Witness ==
    \E a \in Spans, b \in Spans :
        /\ RoundTrip(a, b) /\ ExactSum(a, b)
        /\ heap[a].ms > 0 /\ heap[b].ms > 0
        /\ ret.kind = "returns" /\ ret.val = heap[a].ms
\* a.add(b).subtract(b) is not a: the sum was rounded.
C26_RoundTripLost ==
    \E a \in Spans, b \in Spans :
        /\ RoundTrip(a, b)
        /\ ret.kind = "returns" /\ ret.val # heap[a].ms

\* C27: the Rate constructor and Rate.of throw 'Rate must be a positive number'
\* for every rate <= 0 and otherwise build a Rate holding exactly the given rate
\* and interval; hence every existing Rate has rate > 0 and reading delay never
\* divides by zero or fails.
C27_RatePositive ==
    /\ [](/\ \A k \in Rates : heap[k].rate > 0 /\ heap[k].interval \in Spans
          /\ ret.fn = "delay" => (ret.kind = "returns" /\ ret.class = "TimeSpan"))
    /\ [][\A fn \in {"Rate", "Rate.of"}, rate \in RateArgs, i \in Spans :
            (ret'.fn = fn /\ ret'.args = <<rate, i>>) =>
                IF rate <= 0
                THEN /\ ret'.kind = "throws"
                     /\ ret'.msg = "Rate must be a positive number"
                     /\ heap' = heap
                ELSE /\ ret'.kind = "returns" /\ ret'.class = "Rate"
                     /\ Len(heap) < MaxObjects => heap' = Append(heap, RateOf(rate, i))]_vars
\* The delay of a Rate of 5 per MaxSafe milliseconds has been read.
C27_Witness ==
    /\ ret.fn = "delay" /\ ret.kind = "returns"
    /\ heap[ret.args[1]].rate = 5
    /\ ret.val = MaxSafe \div 5
\* Rate.of has thrown for a rate of zero.
C27_WitnessThrows == ret.fn = "Rate.of" /\ ret.args[1] = 0 /\ ret.kind = "throws"

\* The first item of the iterable whose value no other item's value is above
\* (below, for lowest); 0 for an empty iterable.
FirstHighest(array) ==
    IF array = <<>> THEN 0
    ELSE CHOOSE k \in DOMAIN array :
            /\ \A j \in DOMAIN array : array[j] <= array[k]
            /\ \A j \in 1..(k - 1) : array[j] < array[k]
FirstLowest(array) ==
    IF array = <<>> THEN 0
    ELSE CHOOSE k \in DOMAIN array :
            /\ \A j \in DOMAIN array : array[j] >= array[k]
            /\ \A j \in 1..(k - 1) : array[j] > array[k]

\* C28: for every non-empty iterable and selector, Mathf.max returns the first
\* element whose selector value is the highest over the iterable; it returns
\* undefined only when the iterable is empty.
C28_MaxIsFirstHighest ==
    ret.fn = "max" =>
        /\ ret.val = FirstHighest(ret.args)
        /\ ret.class = "undefined" <=> ret.args = <<>>

\* C29: for every non-empty iterable and selector, Mathf.min returns the first
\* element whose selector value is the lowest over the iterable; it returns
\* undefined only when the iterable is empty.
C29_MinIsFirstLowest ==
    ret.fn = "min" =>
        /\ ret.val = FirstLowest(ret.args)
        /\ ret.class = "undefined" <=> ret.args = <<>>

\* The transports addTransport has added: those after the ones of the constructor.
AddedTransports(verbose) ==
    SubSeq(logger.transports, Len(createWinstonLogger(verbose)) + 1, Len(logger.transports))

\* C30: ServiceLogger uses the verbose option the caller passes, defaulting to
\* true when omitted: with verbose=false no console transport is added and
\* addTransport adds no transport; with verbose=true or omitted the console
\* transport is added and addTransport adds a file transport.
C30_VerboseOptionUsed ==
    logger.created =>
        IF logger.given.verbose = "false"
        THEN logger.transports = createWinstonLogger("false")
        ELSE /\ \E k \in DOMAIN logger.transports : logger.transports[k] = Console
             /\ Len(AddedTransports("true")) = logger.added
             /\ \A k \in DOMAIN AddedTransports("true") :
                    AddedTransports("true")[k].kind = "File"

\* The entries of the filter string that name the service, by position: an entry
\* 'name' or '!name', spaces around the entry and around the name aside.
EntriesFor(input, name) ==
    {k \in DOMAIN input : \E pre \in {<<>>, <<"!">>} : \E body \in {name, <<" ">> \o name} :
        Trim(input[k]) = pre \o body}
\* The filter string excludes the name: its last entry for it is '!name'.
Excludes(input, name) ==
    /\ EntriesFor(input, name) # {}
    /\ LET last == CHOOSE k \in EntriesFor(input, name) :
                        \A j \in EntriesFor(input, name) : j <= k
       IN  StartsWithBang(Trim(input[last]))

\* C31: info and debug emit a message exactly when the global filter does not
\* exclude the logger's serviceName (an entry '!name' excludes, an entry 'name'
\* includes, an unlisted name is included, the last entry for a name wins);
\* warning and error always emit regardless of the filter, and error returns an
\* Error carrying the given message.
C31_FilterGatesInfoAndDebug ==
    /\ logger.last.method \in {"info", "debug"} =>
          /\ (logger.last.handed # Undefined)
                <=> ~Excludes(logger.given.globalFilter, logger.serviceName)
          /\ logger.last.handed \in {Undefined, logger.last.method}
    /\ logger.last.method = "warning" => logger.last.handed = "warn"
    /\ logger.last.method = "error" =>
          /\ logger.last.handed = "error"
          /\ logger.last.returned.type = "Error" /\ logger.last.returned.val = "failed"
\* A filter that first includes and then excludes the service has kept an info
\* message back.
C31_Witness ==
    /\ logger.last.method = "info" /\ logger.last.handed = Undefined
    /\ logger.given.globalFilter = <<<<"a">>, <<" ", "!", "a", " ">>>>
\* A warning went out through a logger whose filter excludes the service.
C31_WitnessWarning ==
    /\ logger.last.method = "warning" /\ logger.last.handed = "warn"
    /\ ~isObservable(logger)

\* The levels from the most severe to the most verbose.
SeverityOrder == <<"error", "warn", "info", "debug">>
AtLeastAsSevere(a, b) ==
    \E i, j \in DOMAIN SeverityOrder :
        SeverityOrder[i] = a /\ SeverityOrder[j] = b /\ i <= j

C38_WitnessWritten ==
    /\ logger.given.globalLogLevel = "info" /\ logger.given.logLevel = "warn"
    /\ logger.last.handed = "warn" /\ logger.last.written # {}

\* Reading the file or parsing its JSON failed.
ReadFailed(file) == ~file.exists \/ ~file.valid
\* readConfig merges: a new object with every key of defaultConfig and of the
\* parsed file, the file's value on a shared key; defaultConfig is as it was.
MergesOrFallsBack ==
    /\ ret.kind = "resolves"
    /\ ret.defaultAfter = ret.defaultConfig
    /\ IF ReadFailed(ret.file)
       THEN ret.same /\ ret.result = ret.defaultConfig
       ELSE /\ ~ret.same
            /\ DOMAIN ret.result = DOMAIN ret.defaultConfig \cup DOMAIN ret.file.value.keys
            /\ \A k \in DOMAIN ret.result :
                  ret.result[k] = IF k \in DOMAIN ret.file.value.keys
                                  THEN ret.file.value.keys[k] ELSE ret.defaultConfig[k]

C32_NothingLogged ==
    /\ ret.fn = "readConfig" /\ ret.file.exists /\ ~ret.file.valid
    /\ ~ret.hasLogger /\ ret.same /\ ret.logged = <<>>

\* initialDelay * factor^(k-1), in milliseconds
RECURSIVE DelayOfSleep(_, _)
DelayOfSleep(k, o) == IF k <= 1 THEN o.initialDelay ELSE Times(DelayOfSleep(k - 1, o), o)

\* C33: in execute without jitter, the sleep that follows the k-th failed attempt
\* lasts exactly initialDelay * factor^(k-1), and the sleep is performed after
\* every failed attempt including the last one before exhaustion, so that on
\* exhaustion the number of sleeps equals the number of attempts and the
\* rejection is delivered only after the final sleep.
C33_SleepAfterEveryFailure ==
    /\ [](backoffOptions.jitter = NoJitter =>
            \A c \in Calls :
                /\ calls[c].pc = "sleep" =>
                      /\ calls[c].sleeps = calls[c].attempts
                      /\ calls[c].slept = DelayOfSleep(calls[c].attempts, backoffOptions)
                /\ calls[c].result.kind = "rejected" => calls[c].sleeps = calls[c].attempts)
    /\ [][backoffOptions.jitter = NoJitter =>
            \A c \in Calls :
                /\ (calls[c].pc = "attempt" /\ calls'[c].pc # "attempt"
                        /\ calls'[c].result.kind # "resolved")
                      => (calls'[c].pc = "sleep" /\ calls'[c].result = Unsettled)
                /\ (calls[c].attempts > 0 /\ calls[c].result = Unsettled
                        /\ calls'[c].result.kind = "rejected")
                      => calls[c].pc = "sleep"]_vars
\* With the defaults of RestRequest a call was rejected after three attempts and
\* three sleeps, the last of 20 s.
C33_Witness ==
    \E c \in Calls :
        /\ backoffOptions = RestRequestDefaults
        /\ calls[c].result.kind = "rejected"
        /\ calls[c].attempts = 3 /\ calls[c].sleeps = 3
        /\ calls[c].slept = 20000

\* What one execute() call holds when it runs alone, by its own count of
\* attempts k: the delay initialDelay * factor^(k-1) where there is no jitter
\* and a delay between that and the one with the full jitter added at every
\* update where there is, the error of the last failed attempt, and as outcome
\* the value of the k-th attempt or the error of the k-th.
RECURSIVE DelayAtMost(_, _)
DelayAtMost(k, o) ==
    IF k <= 1 THEN o.initialDelay
    ELSE Times(DelayAtMost(k - 1, o), o) + (IF o.jitter = NoJitter THEN 0 ELSE o.jitter)
AsIfAlone(l, o) ==
    /\ l.pc \in {"attempt", "sleep"} =>
          /\ l.result = Unsettled
          /\ l.attempts < MaxAttempts =>
                /\ l.cur >= DelayOfSleep(l.attempts, o)
                /\ l.cur <= DelayAtMost(l.attempts, o)
                /\ l.lastError = IF l.pc = "sleep" THEN l.attempts ELSE l.attempts - 1
    /\ l.result.kind = "resolved" => l.result.v = l.attempts
    /\ l.result.kind = "rejected" => (l.result.v = l.attempts /\ l.lastError = l.attempts)

\* C37: retry state is owned by one execute call: when several execute calls run
\* concurrently on the same ExponentialBackoff instance (as RestRequest does for
\* overlapping get/post calls), each call's current delay, last error, number of
\* attempts and outcome are the same as if it ran alone; no call reads or
\* changes another call's state.
C37_CallsAreIndependent ==
    /\ [](\A c \in Calls : AsIfAlone(calls[c], backoffOptions))
    /\ [][/\ backoffOptions' = backoffOptions
          /\ \A c, d \in Calls : (c # d /\ calls'[c] # calls[c]) => calls'[d] = calls[d]]_vars
\* Two requests overlap: one sleeps after its second failure while the other
\* awaits its first attempt.
C37_Witness ==
    \E c, d \in Calls :
        /\ requests[c].method = "get" /\ requests[d].method = "post"
        /\ calls[c].pc = "sleep" /\ calls[c].attempts = 2
        /\ calls[d].pc = "attempt" /\ calls[d].attempts = 1
        /\ calls[c].cur > calls[d].cur

\* C34: in the timer-based revisions, after stop() returns and until the next
\* start(), no new invocation of the operation begins, even when an invocation
\* was in flight at the moment of stop() and schedules a next-poll timer when it
\* completes.
C34_NoInvocationWhileStopped ==
    [][(rev \in TimerRevisions /\ ~polling /\ ~polling')
          => \A i \in Slots : loops'[i].pc = "op" => loops[i].pc = "op"]_vars
\* The timer that an invocation in flight at stop() scheduled has fired on the
\* stopped poller, and no invocation is in flight.
C34_Witness ==
    /\ rev \in TimerRevisions
    /\ ~polling
    /\ out.ev = "timer"
    /\ InFlight = {}

\* C35: in the positional revision, whenever isPolling is true and no code of the
\* poller is running, an invocation of the operation is in flight or a next-poll
\* timer is pending, also after a failed cycle whose callback throws.
C35_LoopAliveWhilePolling ==
    (rev = "positional" /\ polling) => LiveSlots # {}

\* The state a throwing callback leaves: polling, and nothing in flight or pending.
C35_CallbackThrew ==
    /\ rev = "positional"
    /\ polling
    /\ out.ev = "callbackThrows"
    /\ LiveSlots = {}

\* C36: in every revision isPolling is true exactly when the latest of the start()
\* and stop() calls was a start(): false before the first start, true once start()
\* has returned, false once stop() has been called (in the awaitable-stop revision
\* before stop()'s promise settles), and changed by nothing else.
C36_IsPollingFollowsLastCall ==
    /\ ~IsPolling
    /\ [][/\ out'.ev = "start" => IsPolling'
          /\ out'.ev = "stop" => ~IsPolling'
          /\ out'.ev \notin {"start", "stop"} => (IsPolling' <=> IsPolling)]_vars

\* stop() of the awaitable-stop revision has been called and its promise is pending.
C36_Witness ==
    /\ rev = "awaitable"
    /\ out.ev = "stop"
    /\ ~out.noop
    /\ stopWait # {}
    /\ ~IsPolling

\* start() has returned in a timer revision.
C36_WitnessStarted ==
    /\ rev \in TimerRevisions
    /\ out.ev = "start"
    /\ ~out.noop
    /\ IsPolling
====
